---- MODULE Spec2Model ----
(***************************************************************************)
(* A model of XclBin (xclbinutil/XclBinClass.cxx): the in-memory container *)
(* (header m_xclBinHeader, section registry m_sections), its mutation      *)
(* operations, and the binary write / read / migrate paths against a file  *)
(* on disk.                                                                *)
(*                                                                         *)
(* Byte counts.  Stream positions, offsets and sizes are 64-bit in the     *)
(* code and one path narrows them to 32 bits (unsigned int runningOffset). *)
(* TLC's integers stop at 2^31-1, so a byte count n is kept as the pair    *)
(* <<hi, lo>> with n = hi * Radix + lo and 0 <= lo < Radix = 2^30.         *)
(* 2^32 is <<4, 0>>; 2^64 is never approached by a sum of buffer sizes.    *)
(*                                                                         *)
(* Specifications.  Spec: the container with the file it is written to and *)
(* read from.  SpecRegistry: the container under the operations on its     *)
(* registry in memory.  SpecKV: the key-value list under setKeyValue and   *)
(* removeKey.  SpecLayout: the offsets of the write path as a function of  *)
(* the section sizes.  All share the variables and the actions.            *)
(*                                                                         *)
(* The last part models the polling threads of AIEProfilingPlugin          *)
(* (xdp/profile/plugin/aie_profile/aie_plugin.cpp): SpecAie, and SpecAieFair *)
(* with the scheduler's fairness.                                          *)
(***************************************************************************)
EXTENDS Integers, Sequences, FiniteSets, TLC

VARIABLES
    m_xclBinHeader,   \* struct axlf of the container (without the table placeholder)
    m_sections,       \* std::vector<Section*>: the registry, in order
    disk,             \* the xclbin file on disk: [exists, chunks, origin]
    written,          \* history: header, registry and log of the last completed write
    lastOp,           \* the operation that produced this state, with its arguments
    err,              \* its outcome: "ok" or the error it raised
    lastSet,          \* history: per USER key, the value of its latest set since its removal
    steps,            \* number of operations performed so far
    fnIn,             \* input of the pure-function specifications
    fnOut,            \* their output
    mThreadCtrlMap,   \* AIEProfilingPlugin: the control flag of each device handle
    mThreadMap,       \* AIEProfilingPlugin: the polling thread stored under each handle
    mIndex,           \* AIEProfilingPlugin: the index the next polling thread gets
    threads,          \* the polling threads started so far, thread of index i at i + 1
    caller            \* the thread that calls the plugin: where it is, and its last call

containerVars == <<m_xclBinHeader, m_sections>>
diskVars      == <<disk, written>>
aieVars       == <<mThreadCtrlMap, mThreadMap, mIndex, threads, caller>>
fnVars        == <<fnIn, fnOut, aieVars>>
vars == <<m_xclBinHeader, m_sections, disk, written, lastOp, err, lastSet, steps, fnIn, fnOut,
          mThreadCtrlMap, mThreadMap, mIndex, threads, caller>>

---------------------------------------------------------------------------
(* Byte counts as <<hi, lo>> pairs *)

Radix == 2^30

N(n) == <<n \div Radix, n % Radix>>

Add(a, b) == <<a[1] + b[1] + ((a[2] + b[2]) \div Radix), (a[2] + b[2]) % Radix>>

\* a - b for a >= b
Sub(a, b) ==
    IF a[2] >= b[2] THEN <<a[1] - b[1], a[2] - b[2]>>
    ELSE <<a[1] - b[1] - 1, a[2] + Radix - b[2]>>

Lt(a, b) == a[1] < b[1] \/ (a[1] = b[1] /\ a[2] < b[2])
Le(a, b) == a = b \/ Lt(a, b)

\* n mod 8 (Radix is a multiple of 8)
Mod8(a) == a[2] % 8

\* (unsigned int) n: the low 32 bits, 2^32 = 4 * Radix
ToUInt32(a) == <<a[1] % 4, a[2]>>

Zero == N(0)

---------------------------------------------------------------------------
(* Sizes of the on-disk structures *)

\* sizeof(axlf): the header with its one-entry section table placeholder
SizeofAxlf == 496
\* sizeof(axlf_section_header)
SizeofSectionHeader == 40
\* MIRROR_DATA_START.length(), MIRROR_DATA_END.length()
MirrorStartLen == 24
MirrorEndLen == 22

\* sizeof(axlf) - sizeof(axlf_section_header): what writeXclBinBinaryHeader emits
HeaderBytes == SizeofAxlf - SizeofSectionHeader

\* XUtil::bytesToAlign: bytes to the next multiple of 8
bytesToAlign(offset) == IF Mod8(offset) = 0 THEN 0 ELSE 8 - Mod8(offset)

\* writeXclBinBinarySections, "Populate the array size and offsets": the offset
\* of each section, from the sizes in registry order
RECURSIVE OffsetsFrom(_, _)
OffsetsFrom(currentOffset, sizes) ==
    IF sizes = <<>> THEN <<>>
    ELSE LET aligned == Add(currentOffset, N(bytesToAlign(currentOffset)))
         IN  <<aligned>> \o OffsetsFrom(Add(aligned, Head(sizes)), Tail(sizes))

\* the offsets with no padding before a section
RECURSIVE OffsetsFromUnpadded(_, _)
OffsetsFromUnpadded(currentOffset, sizes) ==
    IF sizes = <<>> THEN <<>>
    ELSE <<currentOffset>> \o OffsetsFromUnpadded(Add(currentOffset, Head(sizes)), Tail(sizes))

SectionOffsetsUnpadded(sizes) ==
    OffsetsFromUnpadded(N(HeaderBytes + SizeofSectionHeader * Len(sizes)), sizes)

SectionOffsets(sizes) ==
    OffsetsFrom(N(HeaderBytes + SizeofSectionHeader * Len(sizes)), sizes)

---------------------------------------------------------------------------
(* Section kinds and their capabilities (Section.h / Section.cxx tables) *)

Kinds == {"BITSTREAM", "BUILD_METADATA", "DEBUG_DATA", "IP_LAYOUT",
          "KEYVALUE_METADATA", "PARTITION_METADATA", "SOFT_KERNEL"}

\* the kinds whose payload is a JSON image
JsonKinds == {"BUILD_METADATA", "IP_LAYOUT", "KEYVALUE_METADATA", "PARTITION_METADATA"}

\* Section::translateSectionKindStrToKind: TRUE when the name is a known kind
isKindName(name) == name \in Kinds

\* Section::supportsSectionIndex
supportsSectionIndex(kind) == kind = "SOFT_KERNEL"

\* Section::supportsSubSections
supportsSubSections(kind) == kind = "SOFT_KERNEL"

\* Section::doesSupportAddFormatType
doesSupportAddFormatType(kind, fmt) ==
    fmt = "RAW" \/ (fmt = "JSON" /\ kind \in JsonKinds)

\* doesSupportAddFormatType(FT_JSON) && doesSupportDumpFormatType(FT_JSON)
supportsJsonPayload(kind) == kind \in JsonKinds

\* the JSON a section holds besides its key-value list: whether it has the
\* node build_metadata.dsa, and that node's feature_roms[0] (keys to values)
NoRom == [k \in {} |-> 0]
NoMeta == [dsa |-> FALSE, rom |-> NoRom]

\* Section::createSectionObjectOfKind(kind, indexName): a section without buffers
createSectionObjectOfKind(kind, indexName) ==
    [kind |-> kind, name |-> "", idx |-> indexName, size |-> Zero,
     data |-> "", kv |-> <<>>, subs |-> {}, meta |-> NoMeta]

---------------------------------------------------------------------------
(* The header *)

\* time(nullptr) at construction
Now == "t0"

\* getVersionMajorMinorPath: the version string split at "." into number tokens
getVersionMajorMinorPath(tokens) ==
    IF Len(tokens) = 1
      THEN [ok |-> TRUE, major |-> 0, minor |-> 0, patch |-> tokens[1] % 65536]
    ELSE IF Len(tokens) = 3
      THEN [ok |-> TRUE, major |-> tokens[1] % 256, minor |-> tokens[2] % 256,
            patch |-> tokens[3] % 65536]
    ELSE [ok |-> FALSE, major |-> 0, minor |-> 0, patch |-> 0]

\* xrt_build_version (version.h), split at "."
xrt_build_version == <<2, 11, 0>>

\* _xclBinHeader = {0}
ZeroHeader ==
    [m_magic |-> "", m_signature_length |-> 0, reserved |-> "00", m_keyBlock |-> "00",
     m_uniqueId |-> "0", m_length |-> Zero, m_timeStamp |-> "0",
     m_featureRomTimeStamp |-> 0, m_version |-> <<0, 0, 0>>, m_mode |-> 0,
     m_actionMask |-> 0, rom_uuid |-> "00", m_platformVBNV |-> "", uuid |-> "00",
     m_debug_bin |-> "", m_numSections |-> 0]

\* XclBin::initializeHeader
initializeHeader ==
    LET v == getVersionMajorMinorPath(xrt_build_version)
    IN  [ZeroHeader EXCEPT !.m_magic = "xclbin2", !.m_signature_length = -1,
                           !.reserved = "FF", !.m_keyBlock = "FF",
                           !.m_uniqueId = Now, !.m_timeStamp = Now,
                           !.m_version = <<v.major, v.minor, v.patch>>]

---------------------------------------------------------------------------
(* The registry *)

\* XclBin::findSection: index of the first section of the kind and index name, 0 if none
findSection(sections, kind, indexName) ==
    LET hits == {i \in 1..Len(sections) :
                    sections[i].kind = kind /\ sections[i].idx = indexName}
    IN  IF hits = {} THEN 0 ELSE CHOOSE i \in hits : \A j \in hits : i <= j

\* the sequence without its i-th element
RemoveAt(s, i) == SubSeq(s, 1, i - 1) \o SubSeq(s, i + 1, Len(s))

\* XclBin::addSection(Section*): the container [hdr, secs] with the section appended
addSection(c, section) ==
    LET secs == Append(c.secs, section)
    IN  [hdr |-> [c.hdr EXCEPT !.m_numSections = Len(secs)], secs |-> secs]

\* XclBin::removeSection(const Section*), for the section at index i of the registry
removeSectionPtr(c, i) ==
    LET secs == RemoveAt(c.secs, i)
    IN  [hdr |-> [c.hdr EXCEPT !.m_numSections = Len(secs)], secs |-> secs]

---------------------------------------------------------------------------
(* Files and streams.  A file is the sequence of the chunks written to it,  *)
(* each with its length in bytes; a stream is a file with a position and    *)
(* the log of the writes made through it, each with the position it was     *)
(* made at.                                                                 *)

RECURSIVE FileLen(_)
FileLen(chunks) ==
    IF chunks = <<>> THEN Zero ELSE Add(Head(chunks).len, FileLen(Tail(chunks)))

\* byte position at which chunk i starts
ChunkStart(chunks, i) == FileLen(SubSeq(chunks, 1, i - 1))

\* index of the chunk that starts exactly at pos, 0 if none
ChunkAt(chunks, pos) ==
    LET hits == {i \in 1..Len(chunks) : ChunkStart(chunks, i) = pos}
    IN  IF hits = {} THEN 0 ELSE CHOOSE i \in hits : TRUE

\* index of the chunk that holds the byte at pos, 0 if pos is at or past the end
ChunkHolding(chunks, pos) ==
    LET hits == {i \in 1..Len(chunks) :
                    /\ Le(ChunkStart(chunks, i), pos)
                    /\ Lt(pos, ChunkStart(chunks, i + 1))}
    IN  IF hits = {} THEN 0 ELSE CHOOSE i \in hits : TRUE

\* the chunks left when the first n bytes are cut off; a chunk cut in two
\* leaves its rest as bytes without structure
RECURSIVE DropBytes(_, _)
DropBytes(chunks, n) ==
    IF n = Zero \/ chunks = <<>> THEN chunks
    ELSE IF Le(Head(chunks).len, n) THEN DropBytes(Tail(chunks), Sub(n, Head(chunks).len))
    ELSE <<[t |-> "bytes", len |-> Sub(Head(chunks).len, n)]>> \o Tail(chunks)

\* ostream::write of one chunk at the stream position: appends at the end of
\* the file, overwrites in place elsewhere (the code seeks only to 0 or to the end)
streamWrite(stream, chunk) ==
    IF chunk.len = Zero THEN stream
    ELSE IF stream.pos = FileLen(stream.chunks)
      THEN [chunks |-> Append(stream.chunks, chunk), pos |-> Add(stream.pos, chunk.len),
            log |-> Append(stream.log, [chunk |-> chunk, at |-> stream.pos])]
    ELSE [chunks |-> SubSeq(stream.chunks, 1, ChunkAt(stream.chunks, stream.pos) - 1)
                       \o <<chunk>>
                       \o DropBytes(SubSeq(stream.chunks, ChunkAt(stream.chunks, stream.pos),
                                           Len(stream.chunks)), chunk.len),
          pos |-> Add(stream.pos, chunk.len),
          log |-> Append(stream.log, [chunk |-> chunk, at |-> stream.pos])]

NoFile == [exists |-> FALSE, chunks |-> <<>>, origin |-> "none"]

---------------------------------------------------------------------------
(* The write path *)

\* XclBin::addHeaderMirrorData: the header fields the mirror records
addHeaderMirrorData(hdr) ==
    [Magic |-> hdr.m_magic, SignatureLength |-> hdr.m_signature_length,
     KeyBlock |-> hdr.m_keyBlock, UniqueID |-> hdr.m_uniqueId,
     TimeStamp |-> hdr.m_timeStamp, FeatureRomTimeStamp |-> hdr.m_featureRomTimeStamp,
     Version |-> hdr.m_version, Mode |-> hdr.m_mode, FeatureRomUUID |-> hdr.rom_uuid,
     PlatformVBNV |-> hdr.m_platformVBNV, XclBinUUID |-> hdr.uuid,
     DebugBin |-> hdr.m_debug_bin]

\* XclBin::addPTreeSchemaVersion with m_SchemaVersionMirrorWrite = {1, 0, 0}
addPTreeSchemaVersion(mirror) ==
    Append(mirror, [key |-> "schema_version", val |-> <<1, 0, 0>>])

\* XclBin::writeXclBinBinaryHeader: the header without the table placeholder goes
\* to the stream at its position, a "header" entry to the mirror
writeXclBinBinaryHeader(ws, hdr) ==
    [ws EXCEPT !.stream = streamWrite(ws.stream,
                              [t |-> "header", len |-> N(HeaderBytes), hdr |-> hdr]),
               !.mirror = Append(ws.mirror,
                              [key |-> "header", val |-> addHeaderMirrorData(hdr)])]

\* Section::initXclBinSectionHeader and the offsets: the section header array
sectionHeaderArray(sections) ==
    LET offsets == SectionOffsets([i \in 1..Len(sections) |-> sections[i].size])
    IN  [i \in 1..Len(sections) |->
            [m_sectionKind |-> sections[i].kind, m_sectionName |-> sections[i].name,
             m_sectionOffset |-> offsets[i], m_sectionSize |-> sections[i].size]]

\* Section::writeXclBinSectionBuffer: the section's buffer
payloadChunk(section) ==
    [t |-> "payload", len |-> section.size,
     content |-> [data |-> section.data, idx |-> section.idx, kv |-> section.kv,
                  subs |-> section.subs, meta |-> section.meta]]

\* the mirror entry of one section, were the offset left out of it
sectionMirrorEntryWithoutOffset(section, sh) ==
    [key |-> "section_header",
     val |-> [Kind |-> sh.m_sectionKind, Name |-> sh.m_sectionName,
              Offset |-> Zero, Size |-> sh.m_sectionSize,
              payload |-> IF supportsJsonPayload(section.kind)
                            THEN section.kv ELSE <<>>]]

\* the "section_header" mirror entry of one section, with its JSON payload
\* when the kind has one
sectionMirrorEntry(section, sh) ==
    [key |-> "section_header",
     val |-> [Kind |-> sh.m_sectionKind, Name |-> sh.m_sectionName,
              Offset |-> sh.m_sectionOffset, Size |-> sh.m_sectionSize,
              payload |-> IF supportsJsonPayload(section.kind)
                            THEN section.kv ELSE <<>>]]

\* the loop over the sections without the comparison of the offsets
RECURSIVE writeSectionsFromUnchecked(_, _, _, _)
writeSectionsFromUnchecked(ws, sections, sectionHeader, index) ==
    IF index > Len(sections) THEN ws
    ELSE LET bytePadding == bytesToAlign(ToUInt32(ws.stream.pos))
             padded      == streamWrite(ws.stream, [t |-> "pad", len |-> N(bytePadding)])
         IN  writeSectionsFromUnchecked(
                 [ws EXCEPT !.stream = streamWrite(padded, payloadChunk(sections[index])),
                            !.mirror = Append(ws.mirror,
                                sectionMirrorEntry(sections[index], sectionHeader[index]))],
                 sections, sectionHeader, index + 1)

\* writeXclBinBinarySections, "Write out each of the sections", from index on
RECURSIVE writeSectionsFrom(_, _, _, _)
writeSectionsFrom(ws, sections, sectionHeader, index) ==
    IF index > Len(sections) \/ ws.err # "ok" THEN ws
    ELSE LET tellp         == ToUInt32(ws.stream.pos)
             bytePadding   == bytesToAlign(tellp)
             padded        == streamWrite(ws.stream, [t |-> "pad", len |-> N(bytePadding)])
             runningOffset == ToUInt32(Add(tellp, N(bytePadding)))
         IN  IF runningOffset # sectionHeader[index].m_sectionOffset
               THEN [ws EXCEPT !.stream = padded, !.err = "OffsetMismatch"]
               ELSE writeSectionsFrom(
                        [ws EXCEPT !.stream = streamWrite(padded, payloadChunk(sections[index])),
                                   !.mirror = Append(ws.mirror,
                                       sectionMirrorEntry(sections[index], sectionHeader[index]))],
                        sections, sectionHeader, index + 1)

\* XclBin::writeXclBinBinarySections; emitting are the sections as their
\* writeXclBinSectionBuffer puts them out, the size being the bytes put out
writeXclBinBinarySectionsEmitting(ws, sections, emitting) ==
    IF sections = <<>> THEN ws
    ELSE LET sectionHeader == sectionHeaderArray(sections)
             withTable == [ws EXCEPT !.stream = streamWrite(ws.stream,
                               [t |-> "table",
                                len |-> N(SizeofSectionHeader * Len(sections)),
                                entries |-> sectionHeader])]
         IN  writeSectionsFrom(withTable, emitting, sectionHeader, 1)

\* XclBin::writeXclBinBinarySections, every section putting out its size
writeXclBinBinarySections(ws, sections) ==
    writeXclBinBinarySectionsEmitting(ws, sections, sections)

\* length of the mirror's JSON text
jsonLen(mirror) == N(601 + 97 * Len(mirror))

\* writeXclBinBinaryMirrorData, were the JSON put out before the start sentinel
writeXclBinBinaryMirrorDataJsonFirst(ws) ==
    LET s1 == streamWrite(ws.stream, [t |-> "json", len |-> jsonLen(ws.mirror), mirror |-> ws.mirror])
        s2 == streamWrite(s1, [t |-> "start", len |-> N(MirrorStartLen)])
        s3 == streamWrite(s2, [t |-> "end", len |-> N(MirrorEndLen)])
    IN  [ws EXCEPT !.stream = s3]

\* XclBin::writeXclBinBinaryMirrorData: start sentinel, JSON, end sentinel
writeXclBinBinaryMirrorData(ws) ==
    LET s1 == streamWrite(ws.stream, [t |-> "start", len |-> N(MirrorStartLen)])
        s2 == streamWrite(s1, [t |-> "json", len |-> jsonLen(ws.mirror), mirror |-> ws.mirror])
        s3 == streamWrite(s2, [t |-> "end", len |-> N(MirrorEndLen)])
    IN  [ws EXCEPT !.stream = s3]

\* a seek that leaves the stream where it is
seekBegStays(stream) == stream

\* seekg(0, beg)
seekBeg(stream) == [stream EXCEPT !.pos = Zero]

\* seekg(0, end)
seekEnd(stream) == [stream EXCEPT !.pos = FileLen(stream.chunks)]

\* an update of the UUID that leaves it as it is
updateUUIDKeeps(hdr, newUuid) == hdr

\* XclBin::updateUUID, newUuid being the 128 bits the random generator gives
updateUUID(hdr, newUuid) == [hdr EXCEPT !.uuid = newUuid]

\* XclBin::writeXclBinBinary after the file was opened (and truncated):
\* [hdr, chunks, err, streamSize, log], the header in memory and the file at
\* the end, with the sections put out as emitting
writeXclBinBinaryEmitting(hdr0, sections, emitting, skipUUID, newUuid) ==
    LET hdr1 == IF skipUUID THEN hdr0 ELSE updateUUID(hdr0, newUuid)
        ws0  == [stream |-> [chunks |-> <<>>, pos |-> Zero, log |-> <<>>],
                 mirror |-> addPTreeSchemaVersion(<<>>), err |-> "ok"]
        ws1  == writeXclBinBinaryHeader(ws0, hdr1)
        ws2  == writeXclBinBinarySectionsEmitting(ws1, sections, emitting)
    IN  IF ws2.err # "ok"
          THEN [hdr |-> hdr1, chunks |-> ws2.stream.chunks, err |-> ws2.err,
                streamSize |-> Zero, log |-> ws2.stream.log]
          ELSE LET ws3        == writeXclBinBinaryMirrorData(ws2)
                   atEnd      == seekEnd(ws3.stream)
                   streamSize == atEnd.pos
                   hdr2       == [hdr1 EXCEPT !.m_length = streamSize]
                   ws4        == writeXclBinBinaryHeader(
                                     [ws3 EXCEPT !.stream = seekBeg(atEnd)], hdr2)
               IN  [hdr |-> hdr2, chunks |-> ws4.stream.chunks, err |-> "ok",
                    streamSize |-> streamSize, log |-> ws4.stream.log]

\* XclBin::writeXclBinBinary, every section putting out its size
writeXclBinBinary(hdr0, sections, skipUUID, newUuid) ==
    writeXclBinBinaryEmitting(hdr0, sections, sections, skipUUID, newUuid)

---------------------------------------------------------------------------
(* The read paths.  A container is [hdr, secs]; a read gives [hdr, secs, err]. *)

Failed(c, e) == [hdr |-> c.hdr, secs |-> c.secs, err |-> e]
Done(c)      == [hdr |-> c.hdr, secs |-> c.secs, err |-> "ok"]

\* the first sizeof(axlf) bytes of the file, read over m_xclBinHeader: the
\* header the file starts with (zeroes where the bytes were zeroed)
headerBytesOf(chunks, hdr) ==
    IF chunks = <<>> THEN hdr
    ELSE IF chunks[1].t = "header" THEN chunks[1].hdr
    ELSE IF chunks[1].t = "zero" THEN ZeroHeader
    ELSE [ZeroHeader EXCEPT !.m_magic = "garbage"]

\* XclBin::readXclBinBinaryHeader
readXclBinBinaryHeader(c, chunks) ==
    LET hdr == headerBytesOf(chunks, c.hdr)
        c1  == [hdr |-> hdr, secs |-> c.secs]
    IN  IF Lt(FileLen(chunks), N(SizeofAxlf)) THEN Failed(c1, "HeaderTooSmall")
        ELSE IF hdr.m_magic # "xclbin2" THEN Failed(c1, "BadMagic")
        ELSE Done(c1)

\* istream::read of one axlf_section_header at pos: [ok, sh]
sectionHeaderAt(chunks, pos) ==
    LET i == ChunkHolding(chunks, pos)
        d == IF i = 0 THEN Zero ELSE Sub(pos, ChunkStart(chunks, i))
    IN  IF Lt(FileLen(chunks), Add(pos, N(SizeofSectionHeader)))
          THEN [ok |-> FALSE, known |-> FALSE]
        ELSE IF chunks[i].t = "table" /\ d[1] = 0 /\ d[2] % SizeofSectionHeader = 0
          THEN [ok |-> TRUE, known |-> TRUE,
                sh |-> chunks[i].entries[(d[2] \div SizeofSectionHeader) + 1]]
        ELSE [ok |-> TRUE, known |-> FALSE]

\* Section::readXclBinBinary: the section of a section header (or of a mirror
\* entry), its buffer read from the stream at the recorded offset and size
sectionAt(chunks, kind, name, offset, size) ==
    LET i == ChunkAt(chunks, offset)
    IN  IF Lt(FileLen(chunks), Add(offset, size)) THEN [ok |-> FALSE]
        ELSE IF size = Zero
          THEN [ok |-> TRUE,
                section |-> [createSectionObjectOfKind(kind, "") EXCEPT !.name = name]]
        ELSE IF i # 0 /\ chunks[i].t = "payload" /\ chunks[i].len = size
          THEN [ok |-> TRUE,
                section |-> [kind |-> kind, name |-> name, idx |-> chunks[i].content.idx,
                             size |-> size, data |-> chunks[i].content.data,
                             kv |-> chunks[i].content.kv, subs |-> chunks[i].content.subs,
                             meta |-> chunks[i].content.meta]]
        ELSE [ok |-> TRUE,
              section |-> [createSectionObjectOfKind(kind, "") EXCEPT
                               !.name = name, !.size = size, !.data = "garbage"]]

\* XclBin::readXclBinBinarySections, from section index on (0-based, as in the code)
RECURSIVE readSectionsFrom(_, _, _, _)
readSectionsFrom(c, chunks, numberOfSections, index) ==
    IF index >= numberOfSections THEN Done(c)
    ELSE LET sectionOffset == N(SizeofAxlf + index * SizeofSectionHeader
                                  - SizeofSectionHeader)
             r == sectionHeaderAt(chunks, sectionOffset)
         IN  IF ~r.ok THEN Failed(c, "SectionHeaderTooSmall")
             ELSE IF ~r.known THEN Failed(c, "UnknownKind")
             ELSE LET s == sectionAt(chunks, r.sh.m_sectionKind, r.sh.m_sectionName,
                                     r.sh.m_sectionOffset, r.sh.m_sectionSize)
                  IN  IF ~s.ok THEN Failed(c, "SectionTooSmall")
                      ELSE readSectionsFrom(addSection(c, s.section), chunks,
                                            numberOfSections, index + 1)

\* XclBin::readXclBinBinarySections
readXclBinBinarySections(c, chunks) ==
    readSectionsFrom(c, chunks, c.hdr.m_numSections, 0)

\* index of the first chunk of type t that starts at or after pos, 0 if none
FindFrom(chunks, t, pos) ==
    LET hits == {i \in 1..Len(chunks) :
                    chunks[i].t = t /\ Le(pos, ChunkStart(chunks, i))}
    IN  IF hits = {} THEN 0 ELSE CHOOSE i \in hits : \A j \in hits : i <= j

\* findAndReadMirrorData, were the end sentinel looked for before the start
\* sentinel is reported missing
findAndReadMirrorDataEndFirst(chunks) ==
    LET iStart      == FindFrom(chunks, "start", Zero)
        startOffset == ToUInt32(Add(ToUInt32(ChunkStart(chunks, iStart)),
                                    N(MirrorStartLen)))
        iEnd        == FindFrom(chunks, "end", startOffset)
        bufferSize  == ToUInt32(Sub(ChunkStart(chunks, iEnd), startOffset))
        iJson       == ChunkAt(chunks, startOffset)
    IN  IF iEnd = 0 THEN [err |-> "MalformedMirror", mirror |-> <<>>]
        ELSE IF iStart = 0 THEN [err |-> "MissingMirror", mirror |-> <<>>]
        ELSE IF iJson # 0 /\ chunks[iJson].t = "json" /\ chunks[iJson].len = bufferSize
          THEN [err |-> "ok", mirror |-> chunks[iJson].mirror]
        ELSE [err |-> "JsonParse", mirror |-> <<>>]

\* XclBin::findAndReadMirrorData: [err, mirror]
findAndReadMirrorData(chunks) ==
    LET iStart      == FindFrom(chunks, "start", Zero)
        startOffset == ToUInt32(Add(ToUInt32(ChunkStart(chunks, iStart)),
                                    N(MirrorStartLen)))
        iEnd        == FindFrom(chunks, "end", startOffset)
        bufferSize  == ToUInt32(Sub(ChunkStart(chunks, iEnd), startOffset))
        iJson       == ChunkAt(chunks, startOffset)
    IN  IF iStart = 0 THEN [err |-> "MissingMirror", mirror |-> <<>>]
        ELSE IF iEnd = 0 THEN [err |-> "MalformedMirror", mirror |-> <<>>]
        ELSE IF iJson # 0 /\ chunks[iJson].t = "json" /\ chunks[iJson].len = bufferSize
          THEN [err |-> "ok", mirror |-> chunks[iJson].mirror]
        ELSE [err |-> "JsonParse", mirror |-> <<>>]

\* XclBin::readXclBinHeader: the header rebuilt from the mirror's "header" entry
readXclBinHeader(pt) ==
    LET v == getVersionMajorMinorPath(pt.Version)
    IN  [ZeroHeader EXCEPT !.m_magic = pt.Magic, !.m_signature_length = pt.SignatureLength,
                           !.m_keyBlock = pt.KeyBlock, !.m_uniqueId = pt.UniqueID,
                           !.m_timeStamp = pt.TimeStamp,
                           !.m_featureRomTimeStamp = pt.FeatureRomTimeStamp,
                           !.m_version = <<v.major, v.minor, v.patch>>,
                           !.m_mode = pt.Mode, !.rom_uuid = pt.FeatureRomUUID,
                           !.m_platformVBNV = pt.PlatformVBNV, !.uuid = pt.XclBinUUID,
                           !.m_debug_bin = pt.DebugBin]

\* XclBin::readXclBinaryMirrorImage, from entry index on
RECURSIVE readMirrorFrom(_, _, _, _)
readMirrorFrom(c, chunks, mirror, index) ==
    IF index > Len(mirror) THEN Done(c)
    ELSE LET e == mirror[index]
         IN  IF e.key = "header"
               THEN readMirrorFrom([hdr |-> readXclBinHeader(e.val), secs |-> c.secs],
                                   chunks, mirror, index + 1)
             ELSE IF e.key = "section_header"
               THEN LET s == sectionAt(chunks, e.val.Kind, e.val.Name,
                                       e.val.Offset, e.val.Size)
                    IN  IF ~s.ok THEN Failed(c, "SectionTooSmall")
                        ELSE readMirrorFrom(addSection(c, s.section), chunks,
                                            mirror, index + 1)
             ELSE readMirrorFrom(c, chunks, mirror, index + 1)

\* XclBin::readXclBinaryMirrorImage
readXclBinaryMirrorImage(c, chunks, mirror) == readMirrorFrom(c, chunks, mirror, 1)

\* XclBin::readXclBinBinary once the file is open
readXclBinBinary(c, chunks, bMigrate) ==
    IF bMigrate
      THEN LET m == findAndReadMirrorData(chunks)
           IN  IF m.err # "ok" THEN Failed(c, m.err)
               ELSE readXclBinaryMirrorImage(c, chunks, m.mirror)
      ELSE LET h == readXclBinBinaryHeader(c, chunks)
           IN  IF h.err # "ok" THEN h
               ELSE readXclBinBinarySections([hdr |-> h.hdr, secs |-> h.secs], chunks)

---------------------------------------------------------------------------
(* Strings the operations parse.  A string is the sequence of its lexemes:   *)
(* the delimiter the parser looks for is a lexeme of its own ("[", "]"), or   *)
(* the string comes split at every ":" into its parts.                       *)

\* the text of a sequence of at most one lexeme
Str(lexemes) == IF lexemes = <<>> THEN "" ELSE lexemes[1]

\* std::string::find_first_of: position of the first lexeme c, 0 for npos
FindFirst(lexemes, c) ==
    LET hits == {i \in 1..Len(lexemes) : lexemes[i] = c}
    IN  IF hits = {} THEN 0 ELSE CHOOSE i \in hits : \A j \in hits : i <= j

\* boost::to_upper on the domain token
ToUpper(s) == CASE s = "user" -> "USER" [] s = "sys" -> "SYS" [] OTHER -> s

\* getKeyValueComponents, from the parts between colons: the first two parts
\* and the rest of the string
getKeyValueComponents(parts) ==
    IF Len(parts) < 3 THEN [ok |-> FALSE]
    ELSE [ok |-> TRUE, domain |-> ToUpper(parts[1]), key |-> parts[2],
          value |-> SubSeq(parts, 3, Len(parts))]

---------------------------------------------------------------------------
(* Files the operations read.  A parsed JSON file is the sequence of its    *)
(* top-level entries in file order: the key, the items of the node, whether *)
(* a section of the kind takes the node, and for build_metadata the node    *)
(* dsa with its entry feature_roms[0].                                      *)

\* size of the JSON image of a key-value list
kvImageSize(kv) == N(43 + 29 * Len(kv))

\* Section::readJSONSectionImage for KEYVALUE_METADATA: the list becomes the buffer
readJSONSectionImageKV(section, kv) ==
    [section EXCEPT !.kv = kv, !.size = kvImageSize(kv), !.data = "json"]

JNode(key, items, good) == [key |-> key, items |-> items, good |-> good, meta |-> NoMeta]

\* the node build_metadata with the entry feature_roms[0] of its node dsa
BuildNode(rom) ==
    [key |-> "build_metadata", items |-> <<"b">>, good |-> TRUE,
     meta |-> [dsa |-> TRUE, rom |-> rom]]

JFile(stem, pt) == [stem |-> stem, parses |-> TRUE, pt |-> pt]

\* the JSON files of the file system
JsonFiles ==
    [ p \in {"ip_pm.json", "ip_bogus_pm.json", "ip_kv.json", "pm_bad_ip.json",
             "ip_none_pm.json", "broken.json", "bm.json", "bm_old.json", "bm_bare.json",
             "bm_nodsa.json"} |->
        CASE p = "ip_pm.json" ->
               JFile("ip_pm", << JNode("schema_version", <<"1">>, TRUE),
                                 JNode("ip_layout", <<"i1">>, TRUE),
                                 JNode("partition_metadata", <<"p1">>, TRUE) >>)
          [] p = "ip_bogus_pm.json" ->
               JFile("ip_bogus_pm", << JNode("ip_layout", <<"i2">>, TRUE),
                                       JNode("bogus", <<"b">>, TRUE),
                                       JNode("partition_metadata", <<"p2">>, TRUE) >>)
          [] p = "ip_kv.json" ->
               JFile("ip_kv", << JNode("ip_layout", <<"i3">>, TRUE),
                                 JNode("keyvalue_metadata",
                                       <<[key |-> "k2", value |-> <<"v2">>]>>, TRUE) >>)
          [] p = "pm_bad_ip.json" ->
               JFile("pm_bad_ip", << JNode("partition_metadata", <<"p3">>, FALSE),
                                     JNode("ip_layout", <<"i4">>, TRUE) >>)
          [] p = "ip_none_pm.json" ->
               JFile("ip_none_pm", << JNode("ip_layout", <<>>, TRUE),
                                      JNode("partition_metadata", <<"p4">>, TRUE) >>)
          [] p = "bm.json" ->
               JFile("bm", << BuildNode([k \in {"timeSinceEpoch", "uuid", "vbnvName"} |->
                                 CASE k = "timeSinceEpoch" -> 100 [] k = "uuid" -> "aa"
                                   [] OTHER -> "p1"]) >>)
          [] p = "bm_old.json" ->
               JFile("bm_old", << BuildNode([k \in {"timeSinceEpoch", "time_epoch",
                                                    "vbnvName", "vbnv_name"} |->
                                 CASE k = "timeSinceEpoch" -> 0 [] k = "time_epoch" -> 50
                                   [] k = "vbnvName" -> "" [] OTHER -> "p0"]) >>)
          [] p = "bm_bare.json" -> JFile("bm_bare", << BuildNode(NoRom) >>)
          [] p = "bm_nodsa.json" ->
               JFile("bm_nodsa", << JNode("build_metadata", <<"b">>, TRUE) >>)
          [] p = "broken.json" -> [stem |-> "broken", parses |-> FALSE, pt |-> <<>>] ]

\* Section::getKindOfJSON: the kind of a JSON node name, "" when there is none
getKindOfJSON(nodeName) ==
    CASE nodeName = "ip_layout" -> "IP_LAYOUT"
      [] nodeName = "partition_metadata" -> "PARTITION_METADATA"
      [] nodeName = "build_metadata" -> "BUILD_METADATA"
      [] nodeName = "keyvalue_metadata" -> "KEYVALUE_METADATA"
      [] OTHER -> ""

\* first entry of the tree whose key is the node name of the kind, 0 if none
nodeOfKind(pt, kind) ==
    LET hits == {i \in 1..Len(pt) : getKindOfJSON(pt[i].key) = kind}
    IN  IF hits = {} THEN 0 ELSE CHOOSE i \in hits : \A j \in hits : i <= j

\* the section with the items as its JSON image; a kind whose image is a
\* table of items has no bytes when there is no item
jsonImage(section, items) ==
    IF section.kind = "KEYVALUE_METADATA" THEN readJSONSectionImageKV(section, items)
    ELSE [section EXCEPT !.kv = items, !.size = N(8 * Len(items)),
                         !.data = IF items = <<>> THEN "" ELSE "json"]

\* Section::readJSONSectionImage(pt): [ok, section], the section reading its
\* own node of the tree
readJSONSectionImage(section, pt) ==
    LET n == nodeOfKind(pt, section.kind)
    IN  IF n = 0 \/ ~pt[n].good THEN [ok |-> FALSE, section |-> section]
        ELSE [ok |-> TRUE,
              section |-> [jsonImage(section, pt[n].items) EXCEPT !.meta = pt[n].meta]]

\* Section::appendToSectionMetadata(node, payload): [ok, items, meta], the
\* payload of the section with the node merged into it: the items of the node
\* come after those of the payload, and the keys of the node's feature_roms[0]
\* stand for those of the payload's
appendToSectionMetadata(kind, node, section) ==
    IF kind \in JsonKinds /\ node.good
      THEN [ok |-> TRUE, items |-> section.kv \o node.items,
            meta |-> [dsa |-> section.meta.dsa \/ node.meta.dsa,
                      rom |-> [k \in DOMAIN section.meta.rom \cup DOMAIN node.meta.rom |->
                                 IF k \in DOMAIN node.meta.rom THEN node.meta.rom[k]
                                 ELSE section.meta.rom[k]]]]
      ELSE [ok |-> FALSE, items |-> section.kv, meta |-> section.meta]

\* Section::getJSONOfKind: the JSON node name of a kind, "" when it has none
getJSONOfKind(kind) ==
    CASE kind = "IP_LAYOUT" -> "ip_layout"
      [] kind = "PARTITION_METADATA" -> "partition_metadata"
      [] kind = "BUILD_METADATA" -> "build_metadata"
      [] kind = "KEYVALUE_METADATA" -> "keyvalue_metadata"
      [] OTHER -> ""

\* the files of the file system as bytes: stem, size and content of each
PayloadFiles ==
    [ p \in {"a.bin", "big.bin", "empty.bin", "c:a.bin"} \cup DOMAIN JsonFiles |->
        CASE p = "a.bin"     -> [stem |-> "a", size |-> N(5), data |-> "A", meta |-> NoMeta]
          [] p = "big.bin"   -> [stem |-> "big", size |-> <<4, 0>>, data |-> "B",
                                 meta |-> NoMeta]
          [] p = "empty.bin" -> [stem |-> "empty", size |-> Zero, data |-> "",
                                 meta |-> NoMeta]
          [] p = "c:a.bin"   -> [stem |-> "a", size |-> N(3), data |-> "C", meta |-> NoMeta]
          [] OTHER -> [stem |-> JsonFiles[p].stem, size |-> N(16), data |-> "text",
                       meta |-> LET pt == JsonFiles[p].pt
                                    n  == nodeOfKind(pt, "BUILD_METADATA")
                                IN  IF n = 0 THEN NoMeta ELSE pt[n].meta] ]

fileExists(path) == path \in DOMAIN PayloadFiles

\* Section::readPayload: [ok, section], the section with the file as its
\* buffer, or with the JSON image of its node of the file
readPayload(section, path, format) ==
    IF format = "JSON"
      THEN IF path \in DOMAIN JsonFiles /\ JsonFiles[path].parses
             THEN readJSONSectionImage(section, JsonFiles[path].pt)
             ELSE [ok |-> FALSE, section |-> section]
      ELSE [ok |-> TRUE,
            section |-> [section EXCEPT !.size = PayloadFiles[path].size,
                                        !.data = PayloadFiles[path].data,
                                        !.meta = PayloadFiles[path].meta]]

---------------------------------------------------------------------------
(* Mutations.  Each gives [hdr, secs, err] from the container c = [hdr, secs]. *)

\* updateHeaderFromSection, were the keys of the old naming not looked at
updateHeaderFromSectionNewKeys(c, section) ==
    IF section.kind # "BUILD_METADATA" THEN Done(c)
    ELSE IF ~section.meta.dsa THEN Failed(c, "NoDsaNode")
    ELSE LET featureRom == section.meta.rom
             get(k, d)  == IF k \in DOMAIN featureRom THEN featureRom[k] ELSE d
         IN  Done([hdr |-> [c.hdr EXCEPT
                     !.m_featureRomTimeStamp = get("timeSinceEpoch", 0),
                     !.rom_uuid = get("uuid", "00"),
                     !.m_platformVBNV = get("vbnvName", "")],
                   secs |-> c.secs])

\* XclBin::updateHeaderFromSection: [hdr, secs, err]
updateHeaderFromSection(c, section) ==
    IF section.kind # "BUILD_METADATA" THEN Done(c)
    ELSE IF ~section.meta.dsa THEN Failed(c, "NoDsaNode")
    ELSE LET featureRom == section.meta.rom
             get(k, d)  == IF k \in DOMAIN featureRom THEN featureRom[k] ELSE d
             ts   == get("timeSinceEpoch", 0)
             vbnv == get("vbnvName", "")
         IN  Done([hdr |-> [c.hdr EXCEPT
                     !.m_featureRomTimeStamp = IF ts = 0 THEN get("time_epoch", 0) ELSE ts,
                     !.rom_uuid = get("uuid", "00"),
                     !.m_platformVBNV = IF vbnv = "" THEN get("vbnv_name", "") ELSE vbnv],
                   secs |-> c.secs])

\* Section::supportsSubSection
supportsSubSection(kind, sub) == kind = "SOFT_KERNEL" /\ sub \in {"OBJ", "METADATA"}

\* were every sub-section put into a new section of its own
addSubSectionOfItsOwn(c, psd) ==
    IF psd.sub = "" \/ ~supportsSubSections(psd.section) \/ ~fileExists(psd.file)
      THEN Failed(c, "NoSubSection")
      ELSE Done(addSection(c, [createSectionObjectOfKind(psd.section, psd.index) EXCEPT
                                  !.subs = {psd.sub}]))

\* XclBin::addSubSection
addSubSection(c, psd) ==
    LET kind == psd.section
        i    == findSection(c.secs, kind, psd.index)
        new  == [createSectionObjectOfKind(kind, psd.index) EXCEPT
                    !.name = IF fileExists(psd.file) THEN PayloadFiles[psd.file].stem ELSE ""]
        sec  == IF i # 0 THEN c.secs[i] ELSE new
        read == [sec EXCEPT !.subs = @ \cup {psd.sub},
                            !.size = Add(@, PayloadFiles[psd.file].size),
                            !.data = PayloadFiles[psd.file].data]
    IN  IF psd.sub = "" THEN Failed(c, "NoSubSection")
        ELSE IF ~isKindName(kind) THEN Failed(c, "UnknownKind")
        ELSE IF ~supportsSubSections(kind) THEN Failed(c, "NotValidSectionName")
        ELSE IF ~supportsSubSection(kind, psd.sub) THEN Failed(c, "SubSectionNotSupported")
        ELSE IF i # 0 /\ psd.sub \in c.secs[i].subs THEN Failed(c, "SubSectionExists")
        ELSE IF ~fileExists(psd.file) THEN Failed(c, "CannotOpen")
        ELSE IF i # 0 THEN Done([hdr |-> c.hdr, secs |-> [c.secs EXCEPT ![i] = read]])
        ELSE Done(addSection(c, read))

\* every kind and format may bring an empty payload
bAllowZeroSizeAny(kind, format) == TRUE

\* bAllowZeroSize of XclBin::addSection(ParameterSectionData&)
bAllowZeroSize(kind, format) == kind = "DEBUG_DATA" /\ format = "RAW"

\* XclBin::addSection(ParameterSectionData&)
addSectionPSD(c, psd) ==
    LET kind     == psd.section
        read     == readPayload(createSectionObjectOfKind(kind, ""), psd.file, psd.format)
        pSection == [read.section EXCEPT !.name = PayloadFiles[psd.file].stem]
    IN  IF psd.sub # "" THEN addSubSection(c, psd)
        ELSE IF ~isKindName(kind) THEN Failed(c, "UnknownKind")
        ELSE IF ~fileExists(psd.file) THEN Failed(c, "CannotOpen")
        ELSE IF findSection(c.secs, kind, "") # 0 THEN Failed(c, "AlreadyExists")
        ELSE IF ~doesSupportAddFormatType(kind, psd.format)
          THEN Failed(c, "FormatNotSupported")
        ELSE IF ~read.ok THEN Failed(c, "ReadPayload")
        ELSE IF ~bAllowZeroSize(kind, psd.format) /\ pSection.size = Zero THEN Done(c)
        ELSE updateHeaderFromSection(addSection(c, pSection), pSection)

\* removeSection without the checks of the index usage: the first section of
\* the kind is looked up and removed
removeSectionFindFirst(c, lexemes) ==
    LET sectionIndex == FindFirst(lexemes, "[")
        sectionName  == Str(IF sectionIndex = 0 THEN lexemes
                            ELSE SubSeq(lexemes, 1, sectionIndex - 1))
        i == IF isKindName(sectionName)
               THEN CHOOSE k \in 0..Len(c.secs) :
                       /\ k # 0 => c.secs[k].kind = sectionName
                       /\ k = 0 => \A j \in 1..Len(c.secs) : c.secs[j].kind # sectionName
               ELSE 0
    IN  IF i = 0 THEN Failed(c, "MissingSection") ELSE Done(removeSectionPtr(c, i))

\* XclBin::removeSection(const std::string&), the string as lexemes
removeSection(c, lexemes) ==
    LET sectionIndex == FindFirst(lexemes, "[")
        sectionName  == Str(IF sectionIndex = 0 THEN lexemes
                            ELSE SubSeq(lexemes, 1, sectionIndex - 1))
        sectionIndexName == Str(IF sectionIndex = 0 THEN <<>>
                                ELSE SubSeq(lexemes, sectionIndex + 1, Len(lexemes) - 1))
        i == findSection(c.secs, sectionName, sectionIndexName)
    IN  IF sectionIndex # 0 /\ lexemes[Len(lexemes)] # "]" THEN Failed(c, "FormatError")
        ELSE IF ~isKindName(sectionName) THEN Failed(c, "UnknownKind")
        ELSE IF supportsSectionIndex(sectionName) /\ sectionIndexName = ""
          THEN Failed(c, "IndexRequired")
        ELSE IF ~supportsSectionIndex(sectionName) /\ sectionIndexName # ""
          THEN Failed(c, "IndexNotSupported")
        ELSE IF i = 0 THEN Failed(c, "MissingSection")
        ELSE Done(removeSectionPtr(c, i))

\* Section::purgeBuffers: the section without its buffer
purgeBuffers(section) ==
    [section EXCEPT !.size = Zero, !.data = "", !.kv = <<>>, !.meta = NoMeta]

\* XclBin::replaceSection
replaceSection(c, psd) ==
    LET kind   == psd.section
        i      == findSection(c.secs, kind, "")
        purged == [hdr |-> c.hdr, secs |-> [c.secs EXCEPT ![i] = purgeBuffers(@)]]
        read   == readPayload(purged.secs[i], psd.file, psd.format)
        u      == updateHeaderFromSection(
                      [hdr |-> c.hdr, secs |-> [c.secs EXCEPT ![i] = read.section]],
                      read.section)
    IN  IF ~isKindName(kind) THEN Failed(c, "UnknownKind")
        ELSE IF i = 0 THEN Failed(c, "MissingSection")
        ELSE IF ~fileExists(psd.file) THEN Failed(c, "CannotOpen")
        ELSE IF ~read.ok THEN Failed(purged, "ReadPayload")
        ELSE IF u.err # "ok" THEN u
        ELSE Done([hdr |-> u.hdr,
                   secs |-> [u.secs EXCEPT ![i].name = PayloadFiles[psd.file].stem]])

\* XclBin::addReplaceSection
addReplaceSection(c, psd) ==
    LET removed == removeSection(c, <<psd.section>>)
    IN  IF ~isKindName(psd.section) THEN Failed(c, "UnknownKind")
        ELSE IF findSection(c.secs, psd.section, "") = 0 THEN addSectionPSD(c, psd)
        ELSE IF removed.err # "ok" THEN removed
        ELSE addSectionPSD([hdr |-> removed.hdr, secs |-> removed.secs], psd)

\* ptAll.get_child(jsonNodeName, ptEmpty): the first entry with the name, the
\* whole tree for the empty name, an entry without items when there is none
get_child(ptAll, jsonNodeName) ==
    LET hits == {i \in 1..Len(ptAll) : ptAll[i].key = jsonNodeName}
    IN  IF jsonNodeName = "" THEN JNode("", ptAll, FALSE)
        ELSE IF hits = {} THEN JNode(jsonNodeName, <<>>, TRUE)
        ELSE ptAll[CHOOSE i \in hits : \A j \in hits : i <= j]

\* no tree counts as empty
emptyNever(ptMerge) == FALSE

\* ptree::empty: the tree has no children
empty(ptMerge) == ptMerge.items = <<>>

\* XclBin::addMergeSection
addMergeSection(c, psd) ==
    LET kind    == psd.section
        i       == findSection(c.secs, kind, "")
        ptMerge == get_child(JsonFiles[psd.file].pt, getJSONOfKind(kind))
        a       == appendToSectionMetadata(kind, ptMerge, c.secs[i])
    IN  IF ~isKindName(kind) THEN Failed(c, "UnknownKind")
        ELSE IF psd.format # "JSON" THEN Failed(c, "JsonOnly")
        ELSE IF i = 0 THEN addSectionPSD(c, psd)
        ELSE IF ~fileExists(psd.file) THEN Failed(c, "CannotOpen")
        ELSE IF psd.file \notin DOMAIN JsonFiles \/ ~JsonFiles[psd.file].parses
          THEN Failed(c, "JsonParse")
        ELSE IF empty(ptMerge) THEN Failed(c, "NothingToAdd")
        ELSE IF ~a.ok THEN Failed(c, "Aborting")
        ELSE Done([hdr |-> c.hdr,
                   secs |-> [c.secs EXCEPT
                               ![i] = [jsonImage(@, a.items) EXCEPT !.meta = a.meta]]])

\* index of the first entry of the list with the key, 0 if none
keyIndex(kv, key) ==
    LET hits == {i \in 1..Len(kv) : kv[i].key = key}
    IN  IF hits = {} THEN 0 ELSE CHOOSE i \in hits : \A j \in hits : i <= j

\* AM_LOAD_AIE and the mode values of xclbin.h
ModeOf(value) ==
    CASE value = "flat" -> 0 [] value = "hw_pr" -> 1 [] value = "tandem" -> 2
      [] value = "tandem_pr" -> 3 [] value = "hw_emu" -> 4 [] value = "sw_emu" -> 5
      [] value = "hw_emu_pr" -> 6 [] OTHER -> -1

\* boost::split at "|" of the strings the operations are given
splitMasks(value) ==
    IF Len(value) # 1 THEN <<"other">>
    ELSE CASE value[1] = "LOAD_AIE|BOGUS" -> <<"LOAD_AIE", "BOGUS">>
           [] value[1] = "BOGUS|LOAD_AIE" -> <<"BOGUS", "LOAD_AIE">>
           [] OTHER -> <<value[1]>>

\* XUtil::stringToUInt64 of the strings the operations are given, -1 as its throw
stringToUInt64(value) ==
    IF Len(value) # 1 THEN -1
    ELSE CASE value[1] = "0" -> 0 [] value[1] = "7" -> 7 [] OTHER -> -1

\* the action_mask loop over the masks: [mask, err], an unknown name raising
\* where it stands
RECURSIVE actionMaskFrom(_, _, _)
actionMaskFrom(masks, index, mask) ==
    IF index > Len(masks) THEN [mask |-> mask, err |-> "ok"]
    ELSE IF masks[index] = "LOAD_AIE" THEN actionMaskFrom(masks, index + 1, 1)
    ELSE [mask |-> mask, err |-> "UnknownMask"]

\* setKeyValue, domain SYS; value is the third token as its parts between colons
setKeyValueSys(c, key, value) ==
    IF key = "mode"
      THEN IF Len(value) # 1 \/ ModeOf(Str(value)) < 0 THEN Failed(c, "UnknownValue")
           ELSE Done([hdr |-> [c.hdr EXCEPT !.m_mode = ModeOf(Str(value))], secs |-> c.secs])
    ELSE IF key = "action_mask"
      THEN LET r == actionMaskFrom(splitMasks(value), 1, 0)
           IN  Failed([hdr |-> [c.hdr EXCEPT !.m_actionMask = r.mask], secs |-> c.secs], r.err)
    ELSE IF key = "FeatureRomTimestamp"
      THEN IF stringToUInt64(value) < 0 THEN Failed(c, "BadNumber")
           ELSE Done([hdr |-> [c.hdr EXCEPT !.m_featureRomTimeStamp = stringToUInt64(value)],
                      secs |-> c.secs])
    ELSE IF key = "FeatureRomUUID"
      THEN Done([hdr |-> [c.hdr EXCEPT !.rom_uuid = Str(value)], secs |-> c.secs])
    ELSE IF key = "PlatformVBNV"
      THEN Done([hdr |-> [c.hdr EXCEPT !.m_platformVBNV = Str(value)], secs |-> c.secs])
    ELSE IF key = "XclbinUUID"
      THEN Done([hdr |-> [c.hdr EXCEPT !.uuid = Str(value)], secs |-> c.secs])
    ELSE Failed(c, "UnknownKey")

\* setKeyValue, domain USER, were the pair always appended
setKeyValueUserAppends(c, key, value) ==
    LET c1 == IF findSection(c.secs, "KEYVALUE_METADATA", "") = 0
                THEN addSection(c, createSectionObjectOfKind("KEYVALUE_METADATA", ""))
                ELSE c
        i  == findSection(c1.secs, "KEYVALUE_METADATA", "")
    IN  Done([hdr |-> c1.hdr,
              secs |-> [c1.secs EXCEPT ![i] = readJSONSectionImageKV(@,
                            Append(c1.secs[i].kv, [key |-> key, value |-> value]))]])

\* setKeyValue, domain USER
setKeyValueUser(c, key, value) ==
    LET c1 == IF findSection(c.secs, "KEYVALUE_METADATA", "") = 0
                THEN addSection(c, createSectionObjectOfKind("KEYVALUE_METADATA", ""))
                ELSE c
        i         == findSection(c1.secs, "KEYVALUE_METADATA", "")
        keyValues == c1.secs[i].kv
        k         == keyIndex(keyValues, key)
        updated   == IF k # 0 THEN [keyValues EXCEPT ![k].value = value]
                     ELSE Append(keyValues, [key |-> key, value |-> value])
    IN  Done([hdr |-> c1.hdr,
              secs |-> [c1.secs EXCEPT ![i] = readJSONSectionImageKV(@, updated)]])

\* XclBin::setKeyValue, the string as its parts between colons
setKeyValue(c, parts) ==
    LET kvc == getKeyValueComponents(parts)
    IN  IF ~kvc.ok THEN Failed(c, "FormatError")
        ELSE IF kvc.domain = "SYS" THEN setKeyValueSys(c, kvc.key, kvc.value)
        ELSE IF kvc.domain = "USER" THEN setKeyValueUser(c, kvc.key, kvc.value)
        ELSE Failed(c, "UnknownDomain")

\* removeKey, were every entry from the key's on erased
removeKeyErasesTail(c, key) ==
    LET i == findSection(c.secs, "KEYVALUE_METADATA", "")
        k == IF i = 0 THEN 0 ELSE keyIndex(c.secs[i].kv, key)
    IN  IF i = 0 \/ k = 0 THEN Failed(c, "KeyNotFound")
        ELSE Done([hdr |-> c.hdr,
                   secs |-> [c.secs EXCEPT ![i] =
                                readJSONSectionImageKV(@, SubSeq(c.secs[i].kv, 1, k - 1))]])

\* XclBin::removeKey
removeKey(c, key) ==
    LET i == findSection(c.secs, "KEYVALUE_METADATA", "")
        k == IF i = 0 THEN 0 ELSE keyIndex(c.secs[i].kv, key)
    IN  IF i = 0 \/ k = 0 THEN Failed(c, "KeyNotFound")
        ELSE Done([hdr |-> c.hdr,
                   secs |-> [c.secs EXCEPT ![i] =
                                readJSONSectionImageKV(@, RemoveAt(c.secs[i].kv, k))]])
\* std::stoi of the strings the operations are given, -1 as its throw
stoi(token) == CASE token = "1" -> 1 [] token = "2" -> 2 [] OTHER -> -1

\* the string whose parts between colons these are
RECURSIVE JoinColon(_)
JoinColon(parts) ==
    IF Len(parts) = 1 THEN parts[1] ELSE parts[1] \o ":" \o JoinColon(Tail(parts))

\* the tokens, were the string split at every colon
tokensOfAll(parts) == parts

\* the tokens of parsePSKernelString: the third token runs to the end of the
\* string
tokensOf(parts) ==
    IF Len(parts) < 3 THEN parts
    ELSE <<parts[1], parts[2], JoinColon(SubSeq(parts, 3, Len(parts)))>>

\* parsePSKernelString, the string as its parts between colons
parsePSKernelString(parts) ==
    LET tokens == tokensOf(parts)
    IN  IF Len(tokens) # 3 THEN [err |-> "FormatError"]
        ELSE IF ~fileExists(tokens[3]) THEN [err |-> "NoLibrary"]
        ELSE IF stoi(tokens[2]) < 0 THEN [err |-> "BadNumber"]
        ELSE [err |-> "ok", symbol_name |-> tokens[1], num_instances |-> stoi(tokens[2]),
              path_to_library |-> tokens[3]]

\* XclBin::addPsKernel
addPsKernel(c, parts) ==
    LET p == parsePSKernelString(parts)
        pSection == [createSectionObjectOfKind("SOFT_KERNEL", p.symbol_name) EXCEPT
                        !.subs = {"OBJ", "METADATA"},
                        !.size = Add(N(68), PayloadFiles[p.path_to_library].size),
                        !.data = PayloadFiles[p.path_to_library].data,
                        !.kv   = <<[key |-> "m_num_instances", value |-> p.num_instances]>>]
    IN  IF p.err # "ok" THEN Failed(c, p.err)
        ELSE IF findSection(c.secs, "SOFT_KERNEL", p.symbol_name) # 0
          THEN Failed(c, "AlreadyExists")
        ELSE Done(addSection(c, pSection))

---------------------------------------------------------------------------
(* The bulk operations on a JSON file *)

\* a result [hdr, secs, err] with the index of the key the loop stood at
At(r, index) == [hdr |-> r.hdr, secs |-> r.secs, err |-> r.err, at |-> index]

\* XclBin::addSections, the loop over the top-level entries from index on
RECURSIVE addSectionsFrom(_, _, _)
addSectionsFrom(c, pt, index) ==
    IF index > Len(pt) THEN At(Done(c), index)
    ELSE LET sectionName == pt[index].key
             eKind == getKindOfJSON(sectionName)
             r     == readJSONSectionImage(createSectionObjectOfKind(eKind, ""), pt)
             u     == updateHeaderFromSection(addSection(c, r.section), r.section)
         IN  IF sectionName = "schema_version" THEN addSectionsFrom(c, pt, index + 1)
             ELSE IF eKind = "" THEN At(Failed(c, "UnknownKey"), index)
             ELSE IF findSection(c.secs, eKind, "") # 0
               THEN At(Failed(c, "AlreadyExists"), index)
             ELSE IF ~r.ok THEN At(Failed(c, "Aborting"), index)
             ELSE IF r.section.size = Zero THEN addSectionsFrom(c, pt, index + 1)
             ELSE IF u.err # "ok" THEN At(u, index)
             ELSE addSectionsFrom([hdr |-> u.hdr, secs |-> u.secs], pt, index + 1)

\* the checks both bulk operations start with and readJSONFile: "ok" or the error
bulkPreamble(psd) ==
    IF psd.section # "" THEN "SectionGiven"
    ELSE IF psd.format # "JSON" THEN "ExpectingJson"
    ELSE IF psd.file \notin DOMAIN JsonFiles THEN "CannotOpen"
    ELSE IF ~JsonFiles[psd.file].parses THEN "JsonParse"
    ELSE "ok"

\* XclBin::addSections
addSections(c, psd) ==
    IF bulkPreamble(psd) # "ok" THEN At(Failed(c, bulkPreamble(psd)), 0)
    ELSE addSectionsFrom(c, JsonFiles[psd.file].pt, 1)

\* were a section of any kind created when there is none
isAutoCreatedAny(eKind) == TRUE

\* the kinds appendSections creates a section of when there is none
isAutoCreated(eKind) == eKind = "PARTITION_METADATA" \/ eKind = "IP_LAYOUT"

\* XclBin::appendSections, the loop over the top-level entries from index on
RECURSIVE appendSectionsFrom(_, _, _)
appendSectionsFrom(c, pt, index) ==
    IF index > Len(pt) THEN At(Done(c), index)
    ELSE LET sectionName == pt[index].key
             eKind == getKindOfJSON(sectionName)
             c1    == IF findSection(c.secs, eKind, "") = 0
                        THEN addSection(c, createSectionObjectOfKind(eKind, ""))
                        ELSE c
             i     == findSection(c1.secs, eKind, "")
             a     == appendToSectionMetadata(eKind, pt[index], c1.secs[i])
         IN  IF sectionName = "schema_version" THEN appendSectionsFrom(c, pt, index + 1)
             ELSE IF eKind = "" THEN At(Failed(c, "UnknownKey"), index)
             ELSE IF findSection(c.secs, eKind, "") = 0 /\ ~isAutoCreated(eKind)
               THEN At(Failed(c, "MissingSection"), index)
             ELSE IF ~a.ok THEN At(Failed(c1, "Aborting"), index)
             ELSE appendSectionsFrom(
                      [hdr |-> c1.hdr,
                       secs |-> [c1.secs EXCEPT
                                   ![i] = [jsonImage(@, a.items) EXCEPT !.meta = a.meta]]],
                      pt, index + 1)

\* the loop of appendSections, were a key that fails passed over
RECURSIVE appendSectionsFromSkipping(_, _, _)
appendSectionsFromSkipping(c, pt, index) ==
    IF index > Len(pt) THEN At(Done(c), index)
    ELSE LET r == appendSectionsFrom(c, SubSeq(pt, 1, index), index)
         IN  appendSectionsFromSkipping([hdr |-> r.hdr, secs |-> r.secs], pt, index + 1)

\* XclBin::appendSections, were a key that fails passed over
appendSectionsSkipping(c, psd) ==
    IF bulkPreamble(psd) # "ok" THEN At(Failed(c, bulkPreamble(psd)), 0)
    ELSE appendSectionsFromSkipping(c, JsonFiles[psd.file].pt, 1)

\* XclBin::appendSections
appendSections(c, psd) ==
    IF bulkPreamble(psd) # "ok" THEN At(Failed(c, bulkPreamble(psd)), 0)
    ELSE appendSectionsFrom(c, JsonFiles[psd.file].pt, 1)

---------------------------------------------------------------------------
(* The state machine *)


\* most sections the registry holds
MaxSections == 2
\* most sections the layout is computed for
MaxLen == 3
\* most operations in a run
MaxOps == 6
\* most operations in a run before the last bulk operation
MaxBulkOps == 4
\* most operations in a run before the last add, replace or merge
MaxMergeOps == 3
\* most operations in a run before the last write of sections that put out
\* more than their size
MaxEmitOps == 4

NoWrite == [valid |-> FALSE, hdr |-> ZeroHeader, secs |-> <<>>, log |-> <<>>]
Keys == {"k1", "k2", "k3"}
NoValue == <<>>
NoSet == [k \in Keys |-> NoValue]
container == [hdr |-> m_xclBinHeader, secs |-> m_sections]

\* the state a mutation leaves: the container it gives and how it ended
\* AIEProfilingPlugin::AIEProfilingPlugin: no handle, no thread
NoMap == [h \in {} |-> FALSE]
InitPlugin ==
    /\ mThreadCtrlMap = NoMap
    /\ mThreadMap = NoMap
    /\ mIndex = 0
    /\ threads = <<>>
    /\ caller = [pc |-> "idle", op |-> "AIEProfilingPlugin", handle |-> "", joined |-> {}]

Outcome(op, arg, r) ==
    /\ m_xclBinHeader' = r.hdr
    /\ m_sections' = r.secs
    /\ err' = r.err
    /\ lastOp' = [op |-> op, arg |-> arg]
    /\ steps < MaxOps
    /\ steps' = steps + 1

Init ==
    /\ m_xclBinHeader = initializeHeader
    /\ m_sections = <<>>
    /\ disk = NoFile
    /\ written = NoWrite
    /\ lastOp = [op |-> "XclBin", arg |-> <<>>]
    /\ err = "ok"
    /\ lastSet = NoSet
    /\ steps = 0
    /\ fnIn = <<>>
    /\ fnOut = [done |-> FALSE, offsets |-> <<>>]
    /\ InitPlugin

\* XclBin::XclBin: a new, empty container takes the place of the old one
Construct ==
    /\ Outcome("XclBin", <<>>, Done([hdr |-> initializeHeader, secs |-> <<>>]))
    /\ lastSet' = NoSet
    /\ UNCHANGED <<diskVars, fnVars>>

AddSection(psd) ==
    LET r == addSectionPSD(container, psd)
    IN  /\ Len(r.secs) <= MaxSections
        /\ Outcome("addSection", <<psd>>, r)
        /\ UNCHANGED <<diskVars, lastSet, fnVars>>

AddPsKernel(parts) ==
    LET r == addPsKernel(container, parts)
    IN  /\ Len(r.secs) <= MaxSections
        /\ Outcome("addPsKernel", parts, r)
        /\ UNCHANGED <<diskVars, lastSet, fnVars>>

RemoveSection(lexemes) ==
    /\ Outcome("removeSection", lexemes, removeSection(container, lexemes))
    /\ UNCHANGED <<diskVars, lastSet, fnVars>>

SetKeyValue(parts) ==
    LET r   == setKeyValue(container, parts)
        kvc == getKeyValueComponents(parts)
    IN  /\ Len(r.secs) <= MaxSections
        /\ Outcome("setKeyValue", parts, r)
        /\ lastSet' = IF kvc.ok /\ kvc.domain = "USER" /\ kvc.key \in DOMAIN lastSet
                        THEN [lastSet EXCEPT ![kvc.key] = kvc.value]
                        ELSE lastSet
        /\ UNCHANGED <<diskVars, fnVars>>

RemoveKey(key) ==
    /\ Outcome("removeKey", <<key>>, removeKey(container, key))
    /\ lastSet' = [lastSet EXCEPT ![key] = NoValue]
    /\ UNCHANGED <<diskVars, fnVars>>

\* XclBin::writeXclBinBinary on a file that opens
WriteXclBinBinary(skipUUID, newUuid) ==
    LET r == writeXclBinBinary(m_xclBinHeader, m_sections, skipUUID, newUuid)
    IN  /\ Outcome("writeXclBinBinary", <<skipUUID, newUuid>>,
                   [hdr |-> r.hdr, secs |-> m_sections, err |-> r.err])
        /\ disk' = [exists |-> TRUE, chunks |-> r.chunks,
                    origin |-> IF r.err = "ok" THEN "written" ELSE "partial"]
        /\ written' = IF r.err = "ok"
                        THEN [valid |-> TRUE, hdr |-> r.hdr, secs |-> m_sections,
                              log |-> r.log]
                        ELSE [NoWrite EXCEPT !.log = r.log]
        /\ UNCHANGED <<lastSet, fnVars>>

\* XclBin::writeXclBinBinary where writeXclBinSectionBuffer of section d puts
\* out extra bytes more than the size the section reports
WriteXclBinBinaryEmitting(d, extra) ==
    LET emitting == [m_sections EXCEPT ![d].size = Add(@, N(extra))]
        r == writeXclBinBinaryEmitting(m_xclBinHeader, m_sections, emitting, TRUE, "u1")
    IN  /\ d \in 1..Len(m_sections)
        /\ steps < MaxEmitOps
        /\ Outcome("writeXclBinBinary", <<TRUE, "u1", d, extra>>,
                   [hdr |-> r.hdr, secs |-> m_sections, err |-> r.err])
        /\ disk' = [exists |-> TRUE, chunks |-> r.chunks,
                    origin |-> IF r.err = "ok" THEN "written" ELSE "partial"]
        /\ written' = [valid |-> r.err = "ok", hdr |-> r.hdr, secs |-> m_sections,
                       log |-> r.log]
        /\ UNCHANGED <<lastSet, fnVars>>

\* XclBin::writeXclBinBinary with no name or on a file that does not open
WriteCannotOpen ==
    /\ Outcome("writeXclBinBinary", <<>>, Failed(container, "CannotOpen"))
    /\ UNCHANGED <<diskVars, lastSet, fnVars>>

\* XclBin::readXclBinBinary
ReadXclBinBinary(bMigrate) ==
    LET r == IF disk.exists THEN readXclBinBinary(container, disk.chunks, bMigrate)
             ELSE Failed(container, "CannotOpen")
    IN  /\ Len(r.secs) <= MaxSections
        /\ Outcome("readXclBinBinary", <<bMigrate, lastOp.op = "XclBin">>, r)
        /\ UNCHANGED <<diskVars, lastSet, fnVars>>
\* the file is changed from outside: the bytes of its header are zeroed
ZeroFileHeader ==
    /\ disk.exists /\ disk.chunks # <<>> /\ disk.chunks[1].t = "header"
    /\ disk' = [disk EXCEPT !.chunks[1] = [t |-> "zero", len |-> N(HeaderBytes)],
                            !.origin = "tampered"]
    /\ lastOp' = [op |-> "file", arg |-> <<>>]
    /\ steps < MaxOps
    /\ steps' = steps + 1
    /\ UNCHANGED <<containerVars, written, err, lastSet, fnVars>>

\* the file comes from another writer: its mirror has the "header" entry last
ReorderFileMirror ==
    /\ disk.exists
    /\ \E i \in 1..Len(disk.chunks) :
          /\ disk.chunks[i].t = "json"
          /\ \E h \in 1..(Len(disk.chunks[i].mirror) - 1) :
                /\ disk.chunks[i].mirror[h].key = "header"
                /\ disk' = [disk EXCEPT
                      !.chunks[i].mirror = Append(RemoveAt(@, h), disk.chunks[i].mirror[h]),
                      !.origin = "tampered"]
    /\ lastOp' = [op |-> "file", arg |-> <<>>]
    /\ steps < MaxOps
    /\ steps' = steps + 1
    /\ UNCHANGED <<containerVars, written, err, lastSet, fnVars>>

\* the file is changed from outside: the bytes of the start sentinel, of the
\* mirror's JSON text or of the end sentinel are overwritten
OverwriteFileMirror(what) ==
    /\ disk.exists
    /\ \E i \in 1..Len(disk.chunks) :
          /\ disk.chunks[i].t = what
          /\ disk' = [disk EXCEPT !.chunks[i] = [t |-> "bytes", len |-> disk.chunks[i].len],
                                  !.origin = "tampered"]
    /\ lastOp' = [op |-> "file", arg |-> <<>>]
    /\ steps < MaxOps
    /\ steps' = steps + 1
    /\ UNCHANGED <<containerVars, written, err, lastSet, fnVars>>

PSD(section, index, sub, format, file) ==
    [section |-> section, index |-> index, sub |-> sub, format |-> format, file |-> file]

\* inputs of the file specification
FileAddInputs ==
    { PSD("BITSTREAM", "", "", "RAW", "a.bin"), PSD("BITSTREAM", "", "", "RAW", "big.bin") }

FileKeyValueInputs == { <<"USER", "k1", "v1">>, <<"SYS", "action_mask", "LOAD_AIE">> }

Uuids == {"u1"}

\* the container, the file it is written to and read from
Next ==
    \/ Construct
    \/ \E psd \in FileAddInputs : AddSection(psd)
    \/ \E parts \in FileKeyValueInputs : SetKeyValue(parts)
    \/ \E skipUUID \in BOOLEAN, newUuid \in Uuids : WriteXclBinBinary(skipUUID, newUuid)
    \/ WriteCannotOpen
    \/ \E bMigrate \in BOOLEAN : ReadXclBinBinary(bMigrate)
    \/ ZeroFileHeader
    \/ ReorderFileMirror

Spec == Init /\ [][Next]_vars

\* the container and files whose mirror is damaged, under the migrate read
NextMigrate ==
    \/ Construct
    \/ \E psd \in FileAddInputs : AddSection(psd)
    \/ WriteXclBinBinary(TRUE, "u1")
    \/ \E what \in {"start", "json", "end"} : OverwriteFileMirror(what)
    \/ ReadXclBinBinary(TRUE)

SpecMigrate == Init /\ [][NextMigrate]_vars

\* the container under the operations that fill it, and its writes
NextWrite ==
    \/ Construct
    \/ \E psd \in FileAddInputs : AddSection(psd)
    \/ SetKeyValue(<<"USER", "k1", "v1">>)
    \/ \E skipUUID \in BOOLEAN, newUuid \in {"u1", "u2"} : WriteXclBinBinary(skipUUID, newUuid)
    \/ WriteCannotOpen

SpecWrite == Init /\ [][NextWrite]_vars

\* bytes a section puts out beyond its size: none, less than the padding
\* after a.bin, the padding itself, a whole alignment step
Extras == {0, 1, 3, 8}

\* the container written with sections that put out what they like
NextEmit ==
    \/ Construct
    \/ AddSection(PSD("BITSTREAM", "", "", "RAW", "a.bin"))
    \/ AddPsKernel(<<"k", "1", "a.bin">>)
    \/ SetKeyValue(<<"USER", "k1", "v1">>)
    \/ \E d \in 1..MaxSections, extra \in Extras : WriteXclBinBinaryEmitting(d, extra)

SpecEmit == Init /\ [][NextEmit]_vars

\* XclBin::addSubSection
AddSubSection(psd) ==
    LET r == addSubSection(container, psd)
    IN  /\ Len(r.secs) <= MaxSections
        /\ Outcome("addSubSection", <<psd>>, r)
        /\ UNCHANGED <<diskVars, lastSet, fnVars>>

\* sub-sections given to addSubSection: the two of SOFT_KERNEL, one it does
\* not have, one without a name, one of a kind without sub-sections, one of
\* no kind, one from a file that is not there
SubInputs ==
    { PSD("SOFT_KERNEL", "k", sub, "RAW", "a.bin") : sub \in {"OBJ", "METADATA", "BOGUS", ""} }
    \cup { PSD("BITSTREAM", "", "OBJ", "RAW", "a.bin"),
           PSD("BOGUS", "k", "OBJ", "RAW", "a.bin"),
           PSD("SOFT_KERNEL", "j", "OBJ", "RAW", "none.bin") }

\* inputs of the registry specification
AddInputs ==
    { PSD("BITSTREAM", "", "", "RAW", "a.bin"),
      PSD("BITSTREAM", "", "", "JSON", "a.bin"),
      PSD("DEBUG_DATA", "", "", "RAW", "empty.bin"),
      PSD("IP_LAYOUT", "", "", "RAW", "empty.bin"),
      PSD("BITSTREAM", "", "", "RAW", "none.bin"),
      PSD("BOGUS", "", "", "RAW", "a.bin"),
      PSD("SOFT_KERNEL", "k", "OBJ", "RAW", "a.bin") }

PsKernelInputs ==
    { <<"k", "1", "a.bin">>, <<"k", "x", "a.bin">>, <<"k", "1">>,
      <<"j", "2", "c", "a.bin">>, <<"j", "1", "none.bin">> }

RemoveInputs ==
    { <<"BITSTREAM">>, <<"BITSTREAM", "[", "k", "]">>, <<"BITSTREAM", "[", "]">>,
      <<"SOFT_KERNEL">>, <<"SOFT_KERNEL", "[", "k", "]">>, <<"SOFT_KERNEL", "[", "]">>,
      <<"SOFT_KERNEL", "[", "k">>, <<"KEYVALUE_METADATA", "[", "k", "]">>, <<"BOGUS">> }

KeyValueInputs ==
    { <<"USER", "k1", "v1">>, <<"SYS", "action_mask", "LOAD_AIE">>,
      <<"SYS", "action_mask", "LOAD_AIE|BOGUS">>, <<"SYS", "bogus", "x">>,
      <<"OTHER", "k1", "v1">>, <<"USER", "k1">> }

\* the container under the operations that change its registry in memory
NextRegistry ==
    \/ Construct
    \/ \E psd \in AddInputs : AddSection(psd)
    \/ \E psd \in SubInputs : AddSubSection(psd)
    \/ \E parts \in PsKernelInputs : AddPsKernel(parts)
    \/ \E lexemes \in RemoveInputs : RemoveSection(lexemes)
    \/ \E parts \in KeyValueInputs : SetKeyValue(parts)
    \/ RemoveKey("k1")

SpecRegistry == Init /\ [][NextRegistry]_vars

\* values as the parts of the third token: "v1", "v2" and "v1:v2"
Values == { <<"v1">>, <<"v2">>, <<"v1", "v2">> }

\* the key-value list under setKeyValue (domain USER) and removeKey
NextKV ==
    \/ \E key \in Keys, value \in Values : SetKeyValue(<<"USER", key>> \o value)
    \/ \E key \in Keys : RemoveKey(key)

SpecKV == Init /\ [][NextKV]_vars

\* XclBin::addSections; the history keeps the descriptor and the index of the
\* key the loop stood at when the operation returned or raised
AddSections(psd) ==
    LET r == addSections(container, psd)
    IN  /\ Len(r.secs) <= MaxSections
        /\ steps < MaxBulkOps
        /\ Outcome("addSections", <<psd, r.at>>, r)
        /\ UNCHANGED <<diskVars, lastSet, fnVars>>

\* XclBin::appendSections
AppendSections(psd) ==
    LET r == appendSections(container, psd)
    IN  /\ Len(r.secs) <= MaxSections
        /\ steps < MaxBulkOps
        /\ Outcome("appendSections", <<psd, r.at>>, r)
        /\ UNCHANGED <<diskVars, lastSet, fnVars>>

\* inputs of the bulk specification
BulkInputs ==
    { PSD("", "", "", "JSON", f) :
        f \in {"ip_pm.json", "ip_bogus_pm.json", "ip_kv.json", "pm_bad_ip.json",
               "ip_none_pm.json", "broken.json", "none.json"} }
    \cup { PSD("IP_LAYOUT", "", "", "JSON", "ip_pm.json"),
           PSD("", "", "", "RAW", "ip_pm.json") }

\* the container under the bulk operations; setKeyValue makes the section of
\* a kind that is not created on append
NextBulk ==
    \/ Construct
    \/ SetKeyValue(<<"USER", "k1", "v1">>)
    \/ \E psd \in BulkInputs : AddSections(psd)
    \/ \E psd \in BulkInputs : AppendSections(psd)

SpecBulk == Init /\ [][NextBulk]_vars

\* XclBin::addReplaceSection
AddReplaceSection(psd) ==
    LET r == addReplaceSection(container, psd)
    IN  /\ Len(r.secs) <= MaxSections
        /\ Outcome("addReplaceSection", <<psd>>, r)
        /\ UNCHANGED <<diskVars, lastSet, fnVars>>

\* XclBin::replaceSection
ReplaceSection(psd) ==
    LET r == replaceSection(container, psd)
    IN  /\ Outcome("replaceSection", <<psd>>, r)
        /\ UNCHANGED <<diskVars, lastSet, fnVars>>

\* XclBin::addMergeSection
AddMergeSection(psd) ==
    LET r == addMergeSection(container, psd)
    IN  /\ Len(r.secs) <= MaxSections
        /\ Outcome("addMergeSection", <<psd>>, r)
        /\ UNCHANGED <<diskVars, lastSet, fnVars>>

\* inputs of the merge specification: for IP_LAYOUT a file with the node, with
\* an empty node, without the node, one that does not parse and one that is
\* not there; BUILD_METADATA with the new keys, the old keys, no key and no
\* node dsa; BITSTREAM from files with bytes, without bytes and not there
MergeInputs ==
    { PSD("IP_LAYOUT", "", "", "JSON", f) :
        f \in {"ip_pm.json", "ip_none_pm.json", "bm.json", "broken.json", "none.json"} }
    \cup { PSD("BUILD_METADATA", "", "", "JSON", f) :
             f \in {"bm.json", "bm_old.json", "bm_bare.json", "bm_nodsa.json"} }
    \cup { PSD("BITSTREAM", "", "", "RAW", f) : f \in {"a.bin", "empty.bin", "none.bin"} }
    \cup { PSD("BITSTREAM", "", "", "JSON", "ip_pm.json"),
           PSD("IP_LAYOUT", "", "", "RAW", "a.bin") }

\* the container under add, replace, merge and the bulk operations
NextMerge ==
    \/ Construct
    \/ \E psd \in MergeInputs : steps < MaxMergeOps /\ AddSection(psd)
    \/ \E psd \in MergeInputs : steps < MaxMergeOps /\ ReplaceSection(psd)
    \/ \E psd \in MergeInputs : steps < MaxMergeOps /\ AddReplaceSection(psd)
    \/ \E psd \in MergeInputs : steps < MaxMergeOps /\ AddMergeSection(psd)
    \/ \E f \in {"ip_pm.json", "bm.json", "bm_old.json"} :
          steps < MaxMergeOps /\ AddSections(PSD("", "", "", "JSON", f))
    \/ \E f \in {"ip_pm.json", "bm.json", "bm_old.json"} :
          steps < MaxMergeOps /\ AppendSections(PSD("", "", "", "JSON", f))

SpecMerge == Init /\ [][NextMerge]_vars

\* section sizes: none, unaligned, aligned, and at the 2^32 boundary
Sizes == { N(0), N(5), N(8), <<3, Radix - 3>>, <<4, 0>> }

RECURSIVE SeqsUpTo(_, _)
SeqsUpTo(S, n) ==
    IF n = 0 THEN {<<>>}
    ELSE LET shorter == SeqsUpTo(S, n - 1)
         IN  shorter \cup {Append(q, x) : q \in shorter, x \in S}

InitLayout ==
    /\ m_xclBinHeader = initializeHeader
    /\ m_sections = <<>>
    /\ disk = NoFile
    /\ written = NoWrite
    /\ lastOp = [op |-> "XclBin", arg |-> <<>>]
    /\ err = "ok"
    /\ lastSet = NoSet
    /\ steps = 0
    /\ fnIn \in SeqsUpTo(Sizes, MaxLen)
    /\ fnOut = [done |-> FALSE, offsets |-> <<>>]
    /\ InitPlugin

\* the offsets writeXclBinBinarySections gives to sections of the sizes fnIn
ComputeOffsets ==
    /\ ~fnOut.done
    /\ fnOut' = [done |-> TRUE, offsets |-> SectionOffsets(fnIn)]
    /\ UNCHANGED <<containerVars, diskVars, lastOp, err, lastSet, steps, fnIn, aieVars>>

NextLayout == ComputeOffsets

SpecLayout == InitLayout /\ [][NextLayout]_vars

---------------------------------------------------------------------------
(* The polling threads of AIEProfilingPlugin *)

(* One thread calls the plugin (updateAIEDevice, endPollforDevice, endPoll, *)
(* the destructor); each updateAIEDevice starts a polling thread running    *)
(* pollAIECounters.  A polling thread is [handle, pc, dev, samples, raced,   *)
(* entered]:                                                                *)
(* pc is its place in pollAIECounters ("find", "loop", "sample", "sleep",   *)
(* "done"), dev what the database says of its device ("notReady", "noInst", *)
(* "ready"), samples the samples it has added, raced whether the caller     *)
(* has changed the shape of mThreadCtrlMap since the thread was started and *)
(* before its find has finished, entered whether it has found its flag and  *)
(* entered the loop.  No lock guards the two maps.                          *)

\* the device handles
Handles == {"h1", "h2"}
\* most polling threads started in a run
MaxThreads == 2
\* most samples the device of one polling thread yields
MaxSamples == 1

\* std::map: operator[] with an assignment, erase
Put(map, key, value) == [k \in DOMAIN map \cup {key} |-> IF k = key THEN value ELSE map[k]]
Erase(map, key) == [k \in DOMAIN map \ {key} |-> map[k]]

\* a polling thread that is still running
live(t) == t \in 1..Len(threads) /\ threads[t].pc # "done"

\* a variant of the loop that waits for the device before it looks at the
\* flag again
pollAIECountersWaitingForDevice(th, found, should_continue) ==
    CASE th.pc = "find" ->
             [th EXCEPT !.pc = IF found THEN "loop" ELSE "done", !.raced = FALSE,
                        !.entered = found]
      [] th.pc = "loop" ->
             IF th.dev # "ready" THEN th
             ELSE IF ~should_continue THEN [th EXCEPT !.pc = "done"]
             ELSE [th EXCEPT !.pc = "sample"]
      [] th.pc = "sample" ->
             [th EXCEPT !.pc = "sleep", !.samples = @ + 1,
                        !.dev = IF th.samples + 1 = MaxSamples THEN "notReady" ELSE @]
      [] th.pc = "sleep" -> [th EXCEPT !.pc = "loop"]
      [] OTHER -> th

\* AIEProfilingPlugin::pollAIECounters, one step of the thread th: the find
\* of its flag, one test of the loop with the two waits that go back to the
\* test, the samples of one pass, the sleep
pollAIECounters(th, found, should_continue) ==
    CASE th.pc = "find" ->
             [th EXCEPT !.pc = IF found THEN "loop" ELSE "done", !.raced = FALSE,
                        !.entered = found]
      [] th.pc = "loop" ->
             IF ~should_continue THEN [th EXCEPT !.pc = "done"]
             ELSE IF th.dev = "notReady" THEN th
             ELSE IF th.dev = "noInst" THEN th
             ELSE [th EXCEPT !.pc = "sample"]
      [] th.pc = "sample" ->
             [th EXCEPT !.pc = "sleep", !.samples = @ + 1,
                        !.dev = IF th.samples + 1 = MaxSamples THEN "notReady" ELSE @]
      [] th.pc = "sleep" -> [th EXCEPT !.pc = "loop"]
      [] OTHER -> th

\* a change of the shape of mThreadCtrlMap (an insert, an erase, a clear)
\* is unordered with the find of every thread that has not finished it
racing(ts) == [t \in 1..Len(ts) |-> IF ts[t].pc = "find" THEN [ts[t] EXCEPT !.raced = TRUE] ELSE ts[t]]

\* a step of the polling thread t.  A find that raced with a change of the
\* map may or may not see the handle; a flag whose entry is gone is a
\* dangling reference
Poll(t) ==
    /\ caller.pc # "terminated"
    /\ live(t)
    /\ LET th == threads[t]
           known == th.handle \in DOMAIN mThreadCtrlMap
       IN  \E found \in (IF th.raced THEN BOOLEAN ELSE {known}),
              should_continue \in (IF known THEN {mThreadCtrlMap[th.handle]} ELSE BOOLEAN) :
               threads' = [threads EXCEPT ![t] = pollAIECounters(th, found, should_continue)]
    /\ UNCHANGED <<containerVars, diskVars, lastOp, err, lastSet, steps, fnIn, fnOut>>
    /\ UNCHANGED <<mThreadCtrlMap, mThreadMap, mIndex, caller>>

\* the database learns of the device of the polling thread t: first the
\* device is ready, then it has an AIE device instance
DeviceProgress(t) ==
    /\ caller.pc # "terminated"
    /\ live(t)
    /\ threads[t].samples < MaxSamples
    /\ threads[t].dev # "ready"
    /\ threads' = [threads EXCEPT ![t].dev = IF @ = "notReady" THEN "noInst" ELSE "ready"]
    /\ UNCHANGED <<containerVars, diskVars, lastOp, err, lastSet, steps, fnIn, fnOut>>
    /\ UNCHANGED <<mThreadCtrlMap, mThreadMap, mIndex, caller>>

\* AIEProfilingPlugin::updateAIEDevice.  The move assignment to a
\* std::thread that is joinable calls std::terminate, and every thread
\* stored in mThreadMap is joinable: join is called only on the way to its
\* erase
UpdateAIEDevice(handle, get_aie_profile) ==
    /\ caller.pc = "idle"
    /\ mIndex < MaxThreads
    /\ IF ~get_aie_profile
       THEN /\ caller' = [pc |-> "idle", op |-> "updateAIEDevice", handle |-> handle, joined |-> {}]
            /\ UNCHANGED <<mThreadCtrlMap, mThreadMap, mIndex, threads>>
       ELSE LET before == IF handle \in DOMAIN mThreadCtrlMap THEN threads ELSE racing(threads)
                device_thread == [handle |-> handle, pc |-> "find", dev |-> "notReady",
                                  samples |-> 0, raced |-> FALSE, entered |-> FALSE]
            IN  /\ mThreadCtrlMap' = Put(mThreadCtrlMap, handle, TRUE)
                /\ threads' = Append(before, device_thread)
                /\ IF handle \in DOMAIN mThreadMap
                   THEN /\ caller' = [pc |-> "terminated", op |-> "updateAIEDevice",
                                      handle |-> handle, joined |-> {}]
                        /\ UNCHANGED <<mThreadMap, mIndex>>
                   ELSE /\ mThreadMap' = Put(mThreadMap, handle, mIndex + 1)
                        /\ mIndex' = mIndex + 1
                        /\ caller' = [pc |-> "idle", op |-> "updateAIEDevice",
                                      handle |-> handle, joined |-> {}]
    /\ UNCHANGED <<containerVars, diskVars, lastOp, err, lastSet, steps, fnIn, fnOut>>

\* AIEProfilingPlugin::endPollforDevice up to its join: the flag is cleared
\* (and made, for a handle without one); without a stored thread the call
\* returns
EndPollforDevice(handle) ==
    /\ caller.pc = "idle"
    /\ mThreadCtrlMap' = Put(mThreadCtrlMap, handle, FALSE)
    /\ threads' = IF handle \in DOMAIN mThreadCtrlMap THEN threads ELSE racing(threads)
    /\ caller' = [pc |-> IF handle \in DOMAIN mThreadMap THEN "join" ELSE "idle",
                  op |-> "endPollforDevice", handle |-> handle, joined |-> {}]
    /\ UNCHANGED <<mThreadMap, mIndex>>
    /\ UNCHANGED <<containerVars, diskVars, lastOp, err, lastSet, steps, fnIn, fnOut>>

\* the join of endPollforDevice returns once the stored thread has left
\* pollAIECounters; the handle is erased from both maps
JoinReturns ==
    /\ caller.pc = "join"
    /\ ~live(mThreadMap[caller.handle])
    /\ mThreadMap' = Erase(mThreadMap, caller.handle)
    /\ mThreadCtrlMap' = Erase(mThreadCtrlMap, caller.handle)
    /\ threads' = racing(threads)
    /\ caller' = [caller EXCEPT !.pc = "idle", !.joined = {mThreadMap[caller.handle]}]
    /\ UNCHANGED mIndex
    /\ UNCHANGED <<containerVars, diskVars, lastOp, err, lastSet, steps, fnIn, fnOut>>

\* AIEProfilingPlugin::endPoll up to its joins, called by itself or by the
\* destructor: every flag is cleared
EndPoll(op) ==
    /\ caller.pc = "idle"
    /\ mThreadCtrlMap' = [h \in DOMAIN mThreadCtrlMap |-> FALSE]
    /\ caller' = [pc |-> "joinAll", op |-> op, handle |-> "", joined |-> {}]
    /\ UNCHANGED <<mThreadMap, mIndex, threads>>
    /\ UNCHANGED <<containerVars, diskVars, lastOp, err, lastSet, steps, fnIn, fnOut>>

\* the joins of endPoll have returned once every stored thread has left
\* pollAIECounters; both maps are cleared.  After the destructor there is
\* no plugin to call
JoinAllReturn ==
    /\ caller.pc = "joinAll"
    /\ \A h \in DOMAIN mThreadMap : ~live(mThreadMap[h])
    /\ mThreadCtrlMap' = NoMap
    /\ mThreadMap' = NoMap
    /\ threads' = IF mThreadCtrlMap = NoMap THEN threads ELSE racing(threads)
    /\ caller' = [caller EXCEPT !.pc = IF caller.op = "endPoll" THEN "idle" ELSE "destroyed",
                                !.joined = {mThreadMap[h] : h \in DOMAIN mThreadMap}]
    /\ UNCHANGED mIndex
    /\ UNCHANGED <<containerVars, diskVars, lastOp, err, lastSet, steps, fnIn, fnOut>>

ThreadIds == 1..(MaxThreads + 1)

NextAie ==
    \/ \E handle \in Handles, get_aie_profile \in BOOLEAN : UpdateAIEDevice(handle, get_aie_profile)
    \/ \E handle \in Handles : EndPollforDevice(handle)
    \/ JoinReturns
    \/ \E op \in {"endPoll", "~AIEProfilingPlugin"} : EndPoll(op)
    \/ JoinAllReturn
    \/ \E t \in ThreadIds : Poll(t)
    \/ \E t \in ThreadIds : DeviceProgress(t)

SpecAie == Init /\ [][NextAie]_vars

\* the scheduler runs every polling thread that can take a step, and a join
\* returns once its thread has ended
SpecAieFair ==
    /\ Init
    /\ [][NextAie]_vars
    /\ \A t \in ThreadIds : WF_vars(Poll(t))
    /\ WF_vars(JoinReturns)
    /\ WF_vars(JoinAllReturn)

---------------------------------------------------------------------------
(* Properties of the container and its file *)

\* C1: in every reachable state the header's section count m_numSections
\* equals the number of sections in the registry m_sections.
NumSectionsIsRegistrySize == m_xclBinHeader.m_numSections = Len(m_sections)

\* C2: in every reachable state no two sections of the registry have the
\* same (kind, indexName) pair.
SectionsUnique ==
    \A i, j \in 1..Len(m_sections) :
        i # j => <<m_sections[i].kind, m_sections[i].idx>> #
                 <<m_sections[j].kind, m_sections[j].idx>>

\* C3: the offsets the write path gives to sections of any sizes are each a
\* multiple of 8, the first is at least the header plus the table, and each
\* next one is at least the one before plus the size of its section.
OffsetsAlignedInOrder ==
    fnOut.done =>
        LET offsets == fnOut.offsets
        IN  /\ Len(offsets) = Len(fnIn)
            /\ \A i \in 1..Len(offsets) :
                  /\ Mod8(offsets[i]) = 0
                  /\ i = 1 => Le(N(HeaderBytes + SizeofSectionHeader * Len(fnIn)), offsets[1])
                  /\ i < Len(offsets) => Le(Add(offsets[i], fnIn[i]), offsets[i + 1])

\* offsets were computed for three sections, the second one after padding
OffsetsPadded ==
    /\ fnOut.done
    /\ Len(fnIn) = MaxLen
    /\ Lt(Add(fnOut.offsets[1], fnIn[1]), fnOut.offsets[2])
    /\ Le(<<4, 0>>, fnOut.offsets[3])

\* C4: after a successful writeXclBinBinary, with any number of sections, the
\* total length in the header bytes at the start of the file and in the
\* header in memory is the number of bytes of the file; the length measured
\* before the header was written again is still the length of the file.
WrittenLengthIsFileSize ==
    (lastOp.op = "writeXclBinBinary" /\ err = "ok") =>
        /\ disk.exists
        /\ disk.chunks[1].t = "header"
        /\ disk.chunks[1].hdr.m_length = FileLen(disk.chunks)
        /\ m_xclBinHeader.m_length = FileLen(disk.chunks)

\* a container of two sections, one of them with a JSON payload, was written
WroteTwoSections ==
    /\ lastOp.op = "writeXclBinBinary" /\ err = "ok"
    /\ Len(m_sections) = 2
    /\ \E i \in 1..2 : m_sections[i].kind = "KEYVALUE_METADATA"
    /\ Lt(N(SizeofAxlf + SizeofSectionHeader), FileLen(disk.chunks))

\* C5: a non-migrate read, into a new container, of the file a write
\* produced gives the header that was written and the same sections in order.
BinaryRoundTrip ==
    (lastOp.op = "readXclBinBinary" /\ lastOp.arg = <<FALSE, TRUE>>
        /\ disk.origin = "written") =>
        /\ err = "ok"
        /\ m_xclBinHeader = written.hdr
        /\ m_sections = written.secs

\* C6: a migrate read, into a new container, of the file a write produced
\* gives the header and the sections a non-migrate read of that file gives.
MigrateEqualsBinaryRead ==
    (lastOp.op = "readXclBinBinary" /\ lastOp.arg = <<TRUE, TRUE>>
        /\ disk.origin = "written") =>
        LET direct == readXclBinBinary([hdr |-> initializeHeader, secs |-> <<>>],
                                       disk.chunks, FALSE)
        IN  /\ err = direct.err
            /\ m_xclBinHeader = direct.hdr
            /\ m_sections = direct.secs

\* a file that starts as a container and lacks its end: header, table and
\* payloads without the mirror that closes it
IsPartialContainer(chunks) ==
    /\ chunks # <<>>
    /\ chunks[1].t = "header"
    /\ \A i \in 1..Len(chunks) : chunks[i].t # "end"

\* C10: no partial container is left in the output file, whatever
\* writeXclBinBinary did.
NoPartialContainerOnDisk == ~(disk.exists /\ IsPartialContainer(disk.chunks))

---------------------------------------------------------------------------
(* Properties of the key-value list and of removeSection *)

\* the key-value list of the container: that of its KEYVALUE_METADATA section
KVListOf(sections) ==
    LET i == findSection(sections, "KEYVALUE_METADATA", "")
    IN  IF i = 0 THEN <<>> ELSE sections[i].kv

\* C7: after every setKeyValue("USER:k:v") and removeKey(k) the key-value
\* list holds at most one entry per key, a key is in it exactly when it was
\* set since its last removal and then with the value of its latest set; a
\* set of a key of the list changes the value where the entry is, a set of a
\* new key appends the entry.
KeyValueSetSemantics ==
    [][ LET old == KVListOf(m_sections)
            new == KVListOf(m_sections')
        IN  /\ \A i, j \in 1..Len(new) : i # j => new[i].key # new[j].key
            /\ \A k \in Keys :
                  IF lastSet'[k] = NoValue THEN keyIndex(new, k) = 0
                  ELSE /\ keyIndex(new, k) # 0
                       /\ new[keyIndex(new, k)].value = lastSet'[k]
            /\ (lastOp'.op = "setKeyValue" /\ err' = "ok" /\ ToUpper(lastOp'.arg[1]) = "USER") =>
                  LET key   == lastOp'.arg[2]
                      value == SubSeq(lastOp'.arg, 3, Len(lastOp'.arg))
                  IN  IF keyIndex(old, key) # 0
                        THEN new = [old EXCEPT ![keyIndex(old, key)].value = value]
                        ELSE new = Append(old, [key |-> key, value |-> value])
      ]_vars

\* k1 was set again, to another value, with k2 set after it: it is still first
SetExistingKeyInPlace ==
    /\ lastOp = [op |-> "setKeyValue", arg |-> <<"USER", "k1", "v2">>]
    /\ err = "ok"
    /\ KVListOf(m_sections) = << [key |-> "k1", value |-> <<"v2">>],
                                 [key |-> "k2", value |-> <<"v1">>] >>
    /\ steps = 3

\* C8: removeKey(k) succeeds exactly when k is in the key-value list and then
\* removes that entry alone, the others keeping their order; otherwise it
\* fails with the not-found error and the list, the registry and the header
\* stay as they were.
RemoveKeySemantics ==
    [][ lastOp'.op = "removeKey" =>
          LET key == lastOp'.arg[1]
              old == KVListOf(m_sections)
              new == KVListOf(m_sections')
              i   == findSection(m_sections, "KEYVALUE_METADATA", "")
          IN  IF keyIndex(old, key) # 0
                THEN /\ err' = "ok"
                     /\ new = RemoveAt(old, keyIndex(old, key))
                     /\ Len(m_sections') = Len(m_sections)
                     /\ \A j \in 1..Len(m_sections) : j # i => m_sections'[j] = m_sections[j]
                     /\ m_xclBinHeader' = m_xclBinHeader
                ELSE /\ err' = "KeyNotFound"
                     /\ m_sections' = m_sections
                     /\ m_xclBinHeader' = m_xclBinHeader
      ]_vars

\* the second of three keys was removed, the first and the third stay in order
RemovedMiddleKey ==
    /\ lastOp = [op |-> "removeKey", arg |-> <<"k2">>]
    /\ err = "ok"
    /\ Len(KVListOf(m_sections)) = 2
    /\ KVListOf(m_sections)[1].key = "k1"
    /\ KVListOf(m_sections)[2].key = "k3"

\* the string names a kind and gives an index name where the kind has none,
\* or gives none (no brackets, or nothing between them) where the kind needs one
IndexUsageMismatch(lexemes) ==
    LET wellFormed == \/ Len(lexemes) = 1
                      \/ /\ Len(lexemes) \in {3, 4}
                         /\ lexemes[2] = "["
                         /\ lexemes[Len(lexemes)] = "]"
        indexGiven == Len(lexemes) = 4 /\ lexemes[3] # ""
    IN  /\ wellFormed
        /\ isKindName(lexemes[1])
        /\ supportsSectionIndex(lexemes[1]) # indexGiven

\* C9: removeSection fails when an index is given for a kind without indexes
\* and when none is given for a kind with indexes; the registry and the
\* section count stay as they were, also when a section of the kind is there.
RemoveSectionIndexMismatch ==
    [][ (lastOp'.op = "removeSection" /\ IndexUsageMismatch(lastOp'.arg)) =>
          /\ err' \in {"IndexRequired", "IndexNotSupported"}
          /\ m_sections' = m_sections
          /\ m_xclBinHeader'.m_numSections = m_xclBinHeader.m_numSections
      ]_vars

\* SOFT_KERNEL was asked to be removed without an index while one is there
RemoveIndexedWithoutIndex ==
    /\ lastOp.op = "removeSection" /\ lastOp.arg = <<"SOFT_KERNEL">>
    /\ err = "IndexRequired"
    /\ \E i \in 1..Len(m_sections) :
          m_sections[i].kind = "SOFT_KERNEL" /\ m_sections[i].idx = "k"
    /\ m_xclBinHeader.m_numSections = Len(m_sections)

---------------------------------------------------------------------------
(* Properties of the bulk operations *)

HasKind(sections, kind) == findSection(sections, kind, "") # 0

SectionOfKind(sections, kind) == sections[findSection(sections, kind, "")]

\* the sequence ends with the items
EndsWith(seq, items) ==
    /\ Len(items) <= Len(seq)
    /\ SubSeq(seq, Len(seq) - Len(items) + 1, Len(seq)) = items

\* C11: appendSections and addSections process the top-level keys in file
\* order and raise at the first key that fails (unknown key, section missing
\* for append, section present for add, section rejecting the JSON): the keys
\* before it are applied, in order, and no key after it is processed or
\* applied to the registry; the operation succeeds only when no key fails.
BulkAbortsAtFirstBadKey ==
    [][ (lastOp'.op \in {"addSections", "appendSections"}
            /\ bulkPreamble(lastOp'.arg[1]) = "ok") =>
          LET pt == JsonFiles[lastOp'.arg[1].file].pt
              at == lastOp'.arg[2]
              kindAt(j) == getKindOfJSON(pt[j].key)
              keys(from, to) == {j \in from..to : pt[j].key # "schema_version"}
              isNew(k) == ~HasKind(m_sections, k) /\ HasKind(m_sections', k)
          IN  /\ err' = "ok" =>
                    /\ at = Len(pt) + 1
                    /\ \A j \in keys(1, Len(pt)) : kindAt(j) # "" /\ pt[j].good
              /\ err' # "ok" =>
                    /\ at \in keys(1, Len(pt))
                    /\ err' = "UnknownKey" => kindAt(at) = ""
                    /\ err' = "AlreadyExists" =>
                          lastOp'.op = "addSections" /\ HasKind(m_sections', kindAt(at))
                    /\ err' = "MissingSection" =>
                          lastOp'.op = "appendSections" /\ ~HasKind(m_sections', kindAt(at))
                    /\ \A j \in keys(at + 1, Len(pt)) :
                          kindAt(j) \notin {kindAt(i) : i \in 1..at} =>
                             /\ HasKind(m_sections', kindAt(j)) = HasKind(m_sections, kindAt(j))
                             /\ HasKind(m_sections, kindAt(j)) =>
                                   SectionOfKind(m_sections', kindAt(j)) =
                                   SectionOfKind(m_sections, kindAt(j))
                    /\ Len(m_sections') <= Len(m_sections) + Cardinality(keys(1, at))
              /\ \A j \in keys(1, at - 1) :
                    /\ kindAt(j) # ""
                    /\ pt[j].items # <<>> =>
                          /\ HasKind(m_sections', kindAt(j))
                          /\ EndsWith(SectionOfKind(m_sections', kindAt(j)).kv, pt[j].items)
                    /\ \A i \in keys(1, j - 1) :
                          (isNew(kindAt(i)) /\ isNew(kindAt(j))) =>
                             findSection(m_sections', kindAt(i), "") <
                             findSection(m_sections', kindAt(j), "")
      ]_vars

\* an append stopped at the unknown second key of three: the first key was
\* applied, the third was not
AppendStoppedAtUnknownKey ==
    /\ lastOp.op = "appendSections"
    /\ lastOp.arg = <<PSD("", "", "", "JSON", "ip_bogus_pm.json"), 2>>
    /\ err = "UnknownKey"
    /\ HasKind(m_sections, "IP_LAYOUT")
    /\ EndsWith(SectionOfKind(m_sections, "IP_LAYOUT").kv, <<"i2">>)
    /\ ~HasKind(m_sections, "PARTITION_METADATA")

---------------------------------------------------------------------------
(* Properties of the migrate read and of the write *)

\* index of the first chunk of the type, 0 if there is none
FirstChunk(chunks, t) ==
    LET hits == {i \in 1..Len(chunks) : chunks[i].t = t}
    IN  IF hits = {} THEN 0 ELSE CHOOSE i \in hits : \A j \in hits : i <= j

\* C12: a migrate read fails with the missing-mirror error when the file has
\* no start sentinel, with the malformed-mirror error when it has one and no
\* end sentinel after it, with the JSON parse error when the bytes between
\* the two are not JSON, the earlier check winning; the header and the
\* registry stay as they were in all three cases.
MigrateErrorsInOrder ==
    [][ (lastOp'.op = "readXclBinBinary" /\ lastOp'.arg[1] /\ disk.exists) =>
          LET chunks == disk.chunks
              iStart == FirstChunk(chunks, "start")
              endFollows == \E j \in (iStart + 1)..Len(chunks) : chunks[j].t = "end"
              isJson == chunks[iStart + 1].t = "json" /\ chunks[iStart + 2].t = "end"
              expected == IF iStart = 0 THEN "MissingMirror"
                          ELSE IF ~endFollows THEN "MalformedMirror"
                          ELSE IF ~isJson THEN "JsonParse"
                          ELSE "none"
          IN  expected # "none" =>
                 /\ err' = expected
                 /\ m_xclBinHeader' = m_xclBinHeader
                 /\ m_sections' = m_sections
      ]_vars

\* a container with a section read a file that has the start sentinel,
\* no end sentinel and no JSON after it
MigrateOfFileWithoutEnd ==
    /\ lastOp.op = "readXclBinBinary" /\ lastOp.arg[1]
    /\ err = "MalformedMirror"
    /\ Len(m_sections) = 1
    /\ FirstChunk(disk.chunks, "start") # 0
    /\ FirstChunk(disk.chunks, "end") = 0
    /\ FirstChunk(disk.chunks, "json") = 0

\* the "header" entries of the mirror in the file
MirrorHeaders(chunks) ==
    LET j == FirstChunk(chunks, "json")
    IN  IF j = 0 THEN {}
        ELSE {chunks[j].mirror[i].val : i \in {i \in 1..Len(chunks[j].mirror) :
                                                 chunks[j].mirror[i].key = "header"}}

\* C13: a successful writeXclBinBinary leaves the generated value as the
\* container's UUID when the skip flag is false and the UUID it had when the
\* flag is set; the header bytes of the file and the mirror of the file hold
\* the UUID the container has when the write ends.
WriteUpdatesUuidUnlessSkipped ==
    [][ (lastOp'.op = "writeXclBinBinary" /\ err' = "ok") =>
          /\ m_xclBinHeader'.uuid =
                IF lastOp'.arg[1] THEN m_xclBinHeader.uuid ELSE lastOp'.arg[2]
          /\ disk'.chunks[1].t = "header"
          /\ disk'.chunks[1].hdr.uuid = m_xclBinHeader'.uuid
          /\ MirrorHeaders(disk'.chunks) # {}
          /\ \A h \in MirrorHeaders(disk'.chunks) : h.XclBinUUID = m_xclBinHeader'.uuid
      ]_vars

\* a container with one section was written with the generated UUID u2
WroteGeneratedUuid ==
    /\ lastOp.op = "writeXclBinBinary" /\ lastOp.arg = <<FALSE, "u2">>
    /\ err = "ok"
    /\ written.valid /\ m_xclBinHeader.uuid = "u2"
    /\ Len(m_sections) = 1

\* C14: in every reachable state, also after a binary read that fails the
\* magic check and after a migrate read, the magic of the header in memory is
\* the constant "xclbin2".
MagicIsXclbin2 == m_xclBinHeader.m_magic = "xclbin2"

\* the place of a kind of chunk in the order of a write
WriteRank(t) ==
    CASE t = "header" -> 1 [] t = "table" -> 2 [] t = "pad" -> 3 [] t = "payload" -> 3
      [] t = "start" -> 4 [] t = "json" -> 5 [] t = "end" -> 6

\* the writes of the log that put out a chunk of the type, in order
WritesOf(log, t) == SelectSeq(log, LAMBDA e : e.chunk.t = t)

\* C15: a successful writeXclBinBinary puts out, each write starting where
\* the one before ended: the header without the table placeholder, the
\* section-header table, the payload of each section in registry order after
\* its padding, the start sentinel, the mirror JSON, the end sentinel; the
\* header is written again only after the end sentinel, over the byte range
\* of the first header write.
WriteEmissionOrder ==
    (lastOp.op = "writeXclBinBinary" /\ err = "ok") =>
        LET log     == written.log
            last    == Len(log)
            first   == SubSeq(log, 1, last - 1)
            nonEmpty == SelectSeq(m_sections, LAMBDA sec : sec.size # Zero)
        IN  /\ last >= 5
            /\ log[1].chunk.t = "header" /\ log[1].at = Zero
            /\ log[1].chunk.len = N(SizeofAxlf - SizeofSectionHeader)
            /\ \A k \in 1..(last - 2) :
                  /\ log[k + 1].at = Add(log[k].at, log[k].chunk.len)
                  /\ WriteRank(log[k].chunk.t) <= WriteRank(log[k + 1].chunk.t)
                  /\ log[k].chunk.t = "pad" => log[k + 1].chunk.t = "payload"
            /\ Len(WritesOf(first, "header")) = 1
            /\ Len(WritesOf(first, "table")) = (IF m_sections = <<>> THEN 0 ELSE 1)
            /\ m_sections # <<>> =>
                  WritesOf(first, "table")[1].chunk.len = N(SizeofSectionHeader * Len(m_sections))
            /\ Len(WritesOf(first, "payload")) = Len(nonEmpty)
            /\ \A i \in 1..Len(nonEmpty) :
                  /\ WritesOf(first, "payload")[i].chunk.len = nonEmpty[i].size
                  /\ WritesOf(first, "payload")[i].chunk.content.data = nonEmpty[i].data
                  /\ WritesOf(first, "payload")[i].chunk.content.kv = nonEmpty[i].kv
                  /\ Mod8(WritesOf(first, "payload")[i].at) = 0
            /\ \A e \in {log[k] : k \in 1..last} :
                  e.chunk.t = "pad" => Lt(e.chunk.len, N(8))
            /\ <<log[last - 3].chunk.t, log[last - 2].chunk.t, log[last - 1].chunk.t>> =
                  <<"start", "json", "end">>
            /\ log[last].chunk.t = "header" /\ log[last].at = log[1].at
            /\ log[last].chunk.len = log[1].chunk.len

\* two sections were written, the second one after padding
WroteWithPadding ==
    /\ lastOp.op = "writeXclBinBinary" /\ err = "ok"
    /\ Len(m_sections) = 2
    /\ Len(WritesOf(written.log, "pad")) >= 1
    /\ Len(WritesOf(written.log, "payload")) = 2
    /\ Len(WritesOf(written.log, "header")) = 2

\* the section-header table the write put out, no entry when it put out none
WrittenTable(log) ==
    IF WritesOf(log, "table") = <<>> THEN <<>> ELSE WritesOf(log, "table")[1].chunk.entries

\* the payloads of a write start where the table says; payload k is that of
\* section k, no section of the runs being empty
PayloadsAtTableOffsets(log) ==
    \A k \in 1..Len(WritesOf(log, "payload")) :
        WritesOf(log, "payload")[k].at = WrittenTable(log)[k].m_sectionOffset

\* the position after section d and the padding behind it, modulo 2^32, is
\* not the offset of section d + 1 in the table
MovesNextSection(table, d, extra) ==
    LET end == Add(table[d].m_sectionOffset, Add(table[d].m_sectionSize, N(extra)))
    IN  /\ d < Len(table)
        /\ ToUInt32(Add(end, N(bytesToAlign(end)))) # table[d + 1].m_sectionOffset

\* C16, as the code has it: when the payload of a section starts to be put
\* out the stream position is the offset of the section in the table; a
\* section that puts out a number of bytes other than its size makes the
\* write fail with the offset mismatch at the next section, no later payload
\* being written, exactly when the position after it and its padding is not
\* the next offset of the table; a difference the padding takes up, and one
\* in the last section, pass.
EmittedDifferenceFailsWhenItMovesNext ==
    (lastOp.op = "writeXclBinBinary" /\ Len(lastOp.arg) = 4) =>
        LET log   == written.log
            table == WrittenTable(log)
            d     == lastOp.arg[3]
            extra == lastOp.arg[4]
        IN  /\ PayloadsAtTableOffsets(log)
            /\ Len(table) = Len(m_sections)
            /\ IF MovesNextSection(table, d, extra)
                 THEN err = "OffsetMismatch" /\ Len(WritesOf(log, "payload")) = d
                 ELSE err = "ok" /\ Len(WritesOf(log, "payload")) = Len(m_sections)

\* the first of two sections put out 8 bytes more than its size and the
\* write stopped before the second
StoppedAfterLongSection ==
    /\ lastOp.op = "writeXclBinBinary" /\ lastOp.arg = <<TRUE, "u1", 1, 8>>
    /\ err = "OffsetMismatch"
    /\ Len(m_sections) = 2
    /\ Len(WritesOf(written.log, "payload")) = 1
    /\ disk.origin = "partial"

\* C16, as it is stated: when the payload of a section starts to be put out the
\* stream position is the offset of the section in the table; a section that
\* puts out a number of bytes other than its size makes the write fail with
\* the offset mismatch at the next section, and no later payload is written.
EmittedDifferenceAlwaysFails ==
    (lastOp.op = "writeXclBinBinary" /\ Len(lastOp.arg) = 4) =>
        /\ PayloadsAtTableOffsets(written.log)
        /\ (lastOp.arg[4] # 0 /\ lastOp.arg[3] < Len(m_sections)) =>
              /\ err = "OffsetMismatch"
              /\ Len(WritesOf(written.log, "payload")) = lastOp.arg[3]

\* the mirror in the file, no entry when the file has none
FileMirror(chunks) ==
    IF FirstChunk(chunks, "json") = 0 THEN <<>>
    ELSE chunks[FirstChunk(chunks, "json")].mirror

\* C17: after a successful write the mirror holds one "section_header" entry
\* per section of the registry, in registry order, entry i with the kind, the
\* name, the offset and the size of entry i of the section-header table of
\* the file; the "header" entry of the mirror comes before all of them.
MirrorAgreesWithTable ==
    (lastOp.op = "writeXclBinBinary" /\ err = "ok") =>
        LET mirror  == FileMirror(disk.chunks)
            entries == SelectSeq(mirror, LAMBDA e : e.key = "section_header")
            iTable  == FirstChunk(disk.chunks, "table")
            table   == IF iTable = 0 THEN <<>> ELSE disk.chunks[iTable].entries
            headers == {i \in 1..Len(mirror) : mirror[i].key = "header"}
        IN  /\ Len(entries) = Len(m_sections)
            /\ Len(table) = Len(m_sections)
            /\ \A i \in 1..Len(entries) :
                  /\ entries[i].val.Kind = table[i].m_sectionKind
                  /\ entries[i].val.Name = table[i].m_sectionName
                  /\ entries[i].val.Offset = table[i].m_sectionOffset
                  /\ entries[i].val.Size = table[i].m_sectionSize
                  /\ entries[i].val.Kind = m_sections[i].kind
            /\ Cardinality(headers) = 1
            /\ \A h \in headers : \A i \in 1..Len(mirror) :
                  mirror[i].key = "section_header" => h < i

\* the mirror of a written file has the entries of two sections, the second
\* one at an offset after padding
MirrorOfTwoSections ==
    /\ lastOp.op = "writeXclBinBinary" /\ err = "ok"
    /\ Len(SelectSeq(FileMirror(disk.chunks), LAMBDA e : e.key = "section_header")) = 2
    /\ FileMirror(disk.chunks)[4].val.Kind = "KEYVALUE_METADATA"
    /\ FileMirror(disk.chunks)[4].val.Offset = N(544)

---------------------------------------------------------------------------
(* Properties of addSection and appendSections *)

\* the header without its section count
HeaderFields(hdr) == [hdr EXCEPT !.m_numSections = 0]

\* the add of lastOp' reads an empty payload: no sub-section is named, the kind
\* is known, absent and takes the format, and the file is there and empty
ReadsEmptyPayload ==
    /\ lastOp'.op = "addSection"
    /\ LET psd == lastOp'.arg[1]
       IN  /\ psd.sub = ""
           /\ isKindName(psd.section)
           /\ fileExists(psd.file)
           /\ PayloadFiles[psd.file].size = Zero
           /\ findSection(m_sections, psd.section, "") = 0
           /\ doesSupportAddFormatType(psd.section, psd.format)

\* C18: addSection(ParameterSectionData) for a kind of which a section is in
\* the registry fails with the "already exists" error and leaves the
\* registry, the section count and every header field as they were.
AddOfExistingKindFails ==
    [][ (lastOp'.op = "addSection"
            /\ \E i \in 1..Len(m_sections) : m_sections[i].kind = lastOp'.arg[1].section) =>
          /\ err' = "AlreadyExists"
          /\ m_sections' = m_sections
          /\ m_xclBinHeader' = m_xclBinHeader
      ]_vars

\* C19: an add that reads a payload of size zero ends without an error; it
\* leaves the registry and the header, the section count with it, as they were,
\* unless the kind is DEBUG_DATA and the format raw: then the section of size
\* zero is the new last section, one more is counted and the rest of the
\* header is as before
EmptyPayloadIsNoActionButDebugData ==
    [][ ReadsEmptyPayload =>
          /\ err' = "ok"
          /\ IF lastOp'.arg[1].section = "DEBUG_DATA" /\ lastOp'.arg[1].format = "RAW"
               THEN /\ Len(m_sections') = Len(m_sections) + 1
                    /\ SubSeq(m_sections', 1, Len(m_sections)) = m_sections
                    /\ m_sections'[Len(m_sections')].kind = "DEBUG_DATA"
                    /\ m_sections'[Len(m_sections')].size = Zero
                    /\ m_xclBinHeader'.m_numSections = m_xclBinHeader.m_numSections + 1
                    /\ HeaderFields(m_xclBinHeader') = HeaderFields(m_xclBinHeader)
               ELSE /\ m_sections' = m_sections
                    /\ m_xclBinHeader' = m_xclBinHeader
      ]_vars

\* a raw add of the empty file for DEBUG_DATA has ended without an error and
\* the section of size zero stands in the registry
AddedEmptyDebugData ==
    /\ lastOp.op = "addSection"
    /\ lastOp.arg[1] = PSD("DEBUG_DATA", "", "", "RAW", "empty.bin")
    /\ err = "ok"
    /\ \E i \in 1..Len(m_sections) :
          m_sections[i].kind = "DEBUG_DATA" /\ m_sections[i].size = Zero

\* C20: in appendSections a top-level key whose section is not in the registry
\* makes a new section only when its kind is PARTITION_METADATA or IP_LAYOUT,
\* and then the section is in the registry afterwards; at a key of any other
\* kind the operation fails there and the registry gets no section of that
\* kind.  No section of another kind is ever new after the operation.
AppendCreatesOnlyTwoKinds ==
    [][ (lastOp'.op = "appendSections" /\ bulkPreamble(lastOp'.arg[1]) = "ok") =>
          LET pt == JsonFiles[lastOp'.arg[1].file].pt
              at == lastOp'.arg[2]
              kindAt(j) == getKindOfJSON(pt[j].key)
              reached == {j \in 1..Len(pt) :
                             j <= at /\ pt[j].key # "schema_version" /\ kindAt(j) # ""}
              created == {"PARTITION_METADATA", "IP_LAYOUT"}
          IN  /\ \A j \in reached :
                    ~HasKind(m_sections, kindAt(j)) =>
                       IF kindAt(j) \in created
                         THEN /\ HasKind(m_sections', kindAt(j))
                              /\ err' # "MissingSection" \/ at # j
                         ELSE /\ err' = "MissingSection"
                              /\ at = j
                              /\ ~HasKind(m_sections', kindAt(j))
              /\ \A i \in 1..Len(m_sections') :
                    ~HasKind(m_sections, m_sections'[i].kind) =>
                       m_sections'[i].kind \in created
      ]_vars

\* an append into a registry without sections made the IP_LAYOUT section for
\* the first key and failed at the second, keyvalue_metadata, for which no
\* section was made
AppendMadeIpLayoutOnly ==
    /\ lastOp.op = "appendSections"
    /\ lastOp.arg = <<PSD("", "", "", "JSON", "ip_kv.json"), 2>>
    /\ err = "MissingSection"
    /\ Len(m_sections) = 1
    /\ m_sections[1].kind = "IP_LAYOUT"
    /\ m_sections[1].kv = <<"i3">>

---------------------------------------------------------------------------
(* Properties of merge, replace and the header fields of BUILD_METADATA *)

\* C21: addMergeSection fails for every format but JSON, whether the section
\* is there or not, and changes nothing; with JSON and no section of the kind
\* it ends as addSection does on the same container; with the section there
\* and a file whose tree has no node of the kind's name, or a node without
\* children, it fails and the registry, with the section's payload and name,
\* and the header are as before.
MergeFailsOrAdds ==
    [][ lastOp'.op = "addMergeSection" =>
          LET psd  == lastOp'.arg[1]
              kind == psd.section
              same == m_sections' = m_sections /\ m_xclBinHeader' = m_xclBinHeader
              pt   == JsonFiles[psd.file].pt
              hits == {i \in 1..Len(pt) : pt[i].key = getJSONOfKind(kind)}
              add  == addSectionPSD(container, psd)
          IN  /\ psd.format # "JSON" => err' # "ok" /\ same
              /\ (psd.format = "JSON" /\ isKindName(kind)
                    /\ \A i \in 1..Len(m_sections) : m_sections[i].kind # kind) =>
                    /\ err' = add.err
                    /\ m_sections' = add.secs
                    /\ m_xclBinHeader' = add.hdr
              /\ (psd.format = "JSON" /\ HasKind(m_sections, kind)
                    /\ getJSONOfKind(kind) # ""
                    /\ psd.file \in DOMAIN JsonFiles /\ JsonFiles[psd.file].parses
                    /\ \A i \in hits : pt[i].items = <<>>) =>
                    err' = "NothingToAdd" /\ same
      ]_vars

\* a merge into the IP_LAYOUT section from a file whose node ip_layout has no
\* children has failed, and the section holds what it held
MergedEmptyNode ==
    /\ lastOp.op = "addMergeSection"
    /\ lastOp.arg[1] = PSD("IP_LAYOUT", "", "", "JSON", "ip_none_pm.json")
    /\ err = "NothingToAdd"
    /\ HasKind(m_sections, "IP_LAYOUT")
    /\ SectionOfKind(m_sections, "IP_LAYOUT").kv = <<"i1">>

---------------------------------------------------------------------------
(* Properties of addSubSection and addPsKernel *)

\* C22: addSubSection fails and leaves the registry and the header, the
\* section count with it, as they were when the sub-section has no name, the
\* kind has no sub-sections or not this one, the parent section has the
\* sub-section already, or the file does not open.  Otherwise it succeeds, and
\* it adds a section, the new last one with the kind, the index name and the
\* sub-section, exactly when no section of that kind and index name was in
\* the registry; with such a section there the sub-section goes to it and no
\* section is added.
SubSectionAddsParentWhenNone ==
    [][ lastOp'.op = "addSubSection" =>
          LET psd     == lastOp'.arg[1]
              kind    == psd.section
              i       == findSection(m_sections, kind, psd.index)
              refused == \/ psd.sub = ""
                         \/ ~isKindName(kind)
                         \/ ~supportsSubSections(kind)
                         \/ ~supportsSubSection(kind, psd.sub)
                         \/ i # 0 /\ psd.sub \in m_sections[i].subs
                         \/ ~fileExists(psd.file)
              last    == m_sections'[Len(m_sections')]
          IN  /\ refused =>
                    /\ err' # "ok"
                    /\ m_sections' = m_sections
                    /\ m_xclBinHeader' = m_xclBinHeader
              /\ ~refused => err' = "ok"
              /\ (~refused /\ i = 0) =>
                    /\ Len(m_sections') = Len(m_sections) + 1
                    /\ SubSeq(m_sections', 1, Len(m_sections)) = m_sections
                    /\ last.kind = kind /\ last.idx = psd.index /\ last.subs = {psd.sub}
                    /\ m_xclBinHeader'.m_numSections = m_xclBinHeader.m_numSections + 1
              /\ (~refused /\ i # 0) =>
                    /\ Len(m_sections') = Len(m_sections)
                    /\ \A j \in 1..Len(m_sections) : j # i => m_sections'[j] = m_sections[j]
                    /\ m_sections'[i].subs = m_sections[i].subs \cup {psd.sub}
                    /\ m_xclBinHeader' = m_xclBinHeader
      ]_vars

\* the sub-section METADATA was added to the section SOFT_KERNEL[k], which had
\* the sub-section OBJ, and the registry has this one section
SubSectionJoinedParent ==
    /\ lastOp.op = "addSubSection"
    /\ lastOp.arg[1] = PSD("SOFT_KERNEL", "k", "METADATA", "RAW", "a.bin")
    /\ err = "ok"
    /\ Len(m_sections) = 1
    /\ m_sections[1].subs = {"OBJ", "METADATA"}

\* no two SOFT_KERNEL sections have the same index name
SymbolsDiffer(sections) ==
    \A i, j \in 1..Len(sections) :
        (i # j /\ sections[i].kind = "SOFT_KERNEL" /\ sections[j].kind = "SOFT_KERNEL") =>
           sections[i].idx # sections[j].idx

\* C23: addPsKernel takes the string up to the first colon as the symbol, up
\* to the second as the count and the rest, colons and all, as the path.  It
\* fails and leaves the registry and the header as they were when the string
\* has fewer than three parts, no file is at the path, or a SOFT_KERNEL section
\* with the symbol is there; with three parts, a file at the path, a count
\* that is a number and no such section it succeeds, and on success the
\* registry has one section more, the last: SOFT_KERNEL with the symbol as
\* index name and the sub-sections OBJ and METADATA.  Sections with different
\* symbols stay so.
PsKernelAddsOneSection ==
    [][ lastOp'.op = "addPsKernel" =>
          LET parts   == lastOp'.arg
              symbol  == parts[1]
              path    == JoinColon(SubSeq(parts, 3, Len(parts)))
              refused == \/ Len(parts) < 3
                         \/ ~fileExists(path)
                         \/ findSection(m_sections, "SOFT_KERNEL", symbol) # 0
              last    == m_sections'[Len(m_sections')]
          IN  /\ refused =>
                    /\ err' # "ok"
                    /\ m_sections' = m_sections
                    /\ m_xclBinHeader' = m_xclBinHeader
              /\ (~refused /\ stoi(parts[2]) >= 0) => err' = "ok"
              /\ err' = "ok" =>
                    /\ Len(m_sections') = Len(m_sections) + 1
                    /\ SubSeq(m_sections', 1, Len(m_sections)) = m_sections
                    /\ last.kind = "SOFT_KERNEL" /\ last.idx = symbol
                    /\ last.subs = {"OBJ", "METADATA"}
                    /\ last.size = Add(N(68), PayloadFiles[path].size)
              /\ SymbolsDiffer(m_sections) => SymbolsDiffer(m_sections')
      ]_vars

\* the PS kernel j was added from the file at c:a.bin, a path with a colon,
\* next to the section SOFT_KERNEL[k]
AddedKernelFromPathWithColon ==
    /\ lastOp.op = "addPsKernel"
    /\ lastOp.arg = <<"j", "2", "c", "a.bin">>
    /\ err = "ok"
    /\ Len(m_sections) = 2
    /\ m_sections[1].idx = "k" /\ m_sections[1].kind = "SOFT_KERNEL"
    /\ m_sections[2].idx = "j" /\ m_sections[2].data = "C"

---------------------------------------------------------------------------
(* Properties of the header fields taken from BUILD_METADATA, and of replace *)

\* feature_roms[0] of the node build_metadata of a JSON file
RomOfFile(file) ==
    LET pt == JsonFiles[file].pt
    IN  pt[CHOOSE i \in 1..Len(pt) : pt[i].key = "build_metadata"].meta.rom

\* the three header fields that are taken from BUILD_METADATA
RomFields(hdr) == <<hdr.m_featureRomTimeStamp, hdr.rom_uuid, hdr.m_platformVBNV>>

\* C24: after a successful add or replace of a BUILD_METADATA section the
\* feature-ROM timestamp of the header is timeSinceEpoch of feature_roms[0]
\* when that is there and not zero, else time_epoch, else 0, and the platform
\* field is vbnvName when that is there and not empty, else vbnv_name, else
\* empty.  An add or a replace of a section of another kind leaves the
\* feature-ROM timestamp, the feature-ROM UUID and the platform field as they
\* were.
HeaderTakenFromBuildMetadata ==
    [][ lastOp'.op \in {"addSection", "replaceSection", "addReplaceSection"} =>
          LET psd == lastOp'.arg[1]
              rom == RomOfFile(psd.file)
              has(k) == k \in DOMAIN rom
          IN  /\ (psd.section = "BUILD_METADATA" /\ err' = "ok") =>
                    /\ HasKind(m_sections', "BUILD_METADATA")
                    /\ m_xclBinHeader'.m_featureRomTimeStamp =
                          IF has("timeSinceEpoch") /\ rom["timeSinceEpoch"] # 0
                            THEN rom["timeSinceEpoch"]
                          ELSE IF has("time_epoch") THEN rom["time_epoch"] ELSE 0
                    /\ m_xclBinHeader'.m_platformVBNV =
                          IF has("vbnvName") /\ rom["vbnvName"] # "" THEN rom["vbnvName"]
                          ELSE IF has("vbnv_name") THEN rom["vbnv_name"] ELSE ""
              /\ psd.section # "BUILD_METADATA" =>
                    RomFields(m_xclBinHeader') = RomFields(m_xclBinHeader)
      ]_vars

\* the payload of the BUILD_METADATA section was replaced by one with the
\* keys of the old naming, and the header has their values
ReplacedByOldKeys ==
    /\ lastOp.op = "replaceSection"
    /\ lastOp.arg[1] = PSD("BUILD_METADATA", "", "", "JSON", "bm_old.json")
    /\ err = "ok"
    /\ written = NoWrite
    /\ HasKind(m_sections, "BUILD_METADATA")
    /\ SectionOfKind(m_sections, "BUILD_METADATA").name = "bm_old"
    /\ m_xclBinHeader.m_featureRomTimeStamp = 50
    /\ m_xclBinHeader.m_platformVBNV = "p0"

\* the header has the timestamp and the platform that feature_roms[0] of the
\* BUILD_METADATA section of the registry gives, if there is such a section
DerivedFromBuildMetadata(hdr, sections) ==
    HasKind(sections, "BUILD_METADATA") =>
       LET rom == SectionOfKind(sections, "BUILD_METADATA").meta.rom
           has(k) == k \in DOMAIN rom
       IN  /\ hdr.m_featureRomTimeStamp =
                 IF has("timeSinceEpoch") /\ rom["timeSinceEpoch"] # 0
                   THEN rom["timeSinceEpoch"]
                 ELSE IF has("time_epoch") THEN rom["time_epoch"] ELSE 0
           /\ hdr.m_platformVBNV =
                 IF has("vbnvName") /\ rom["vbnvName"] # "" THEN rom["vbnvName"]
                 ELSE IF has("vbnv_name") THEN rom["vbnv_name"] ELSE ""

ReplaceIsAllOrNothing ==
    [][ (lastOp'.op = "addReplaceSection"
            /\ HasKind(m_sections, lastOp'.arg[1].section)
            /\ LET psd == lastOp'.arg[1]
               IN  \/ ~fileExists(psd.file)
                   \/ ~doesSupportAddFormatType(psd.section, psd.format)
                   \/ /\ psd.format = "RAW" /\ PayloadFiles[psd.file].size = Zero
                      /\ ~bAllowZeroSize(psd.section, psd.format)) =>
          LET kind == lastOp'.arg[1].section
          IN  /\ HasKind(m_sections', kind)
              /\ SectionOfKind(m_sections', kind) = SectionOfKind(m_sections, kind)
              /\ Len(m_sections') = Len(m_sections)
              /\ m_xclBinHeader'.m_numSections = m_xclBinHeader.m_numSections
      ]_vars

---------------------------------------------------------------------------
(* Properties of setKeyValue in the domain SYS *)

\* C26: a setKeyValue in the domain SYS that fails (a key that is not known,
\* a mode that is not known, a list for action_mask with a name that is not
\* known at any place) leaves every field of the header, the action mask
\* too, as it was before the call.
FailedSysSetKeepsHeader ==
    [][ (lastOp'.op = "setKeyValue"
            /\ getKeyValueComponents(lastOp'.arg).ok
            /\ getKeyValueComponents(lastOp'.arg).domain = "SYS"
            /\ err' # "ok") =>
          m_xclBinHeader' = m_xclBinHeader
      ]_vars

---------------------------------------------------------------------------
(* Properties of the stream position of the write *)

\* C27: a write of sections that each put out as many bytes as the size of
\* their table entry never ends with the offset-mismatch error, also with a
\* section at an offset of 2^32 or more: the stream position is compared with
\* the 64-bit table offset without being cut to 32 bits.
WriteOfExactSectionsNeverMismatches ==
    [][ (lastOp'.op = "writeXclBinBinary" /\ Len(lastOp'.arg) = 2) =>
          err' # "OffsetMismatch"
      ]_vars

---------------------------------------------------------------------------
(* Properties of the polling threads of AIEProfilingPlugin *)

\* C29: in every reachable state each device handle has at most one
\* polling thread that is still running, and every polling thread that is
\* still running is the one stored in mThreadMap under its handle, so that
\* endPoll and endPollforDevice can join it; a second updateAIEDevice for a
\* handle whose polling thread is still running leaves that thread stored
\* and alone.
EveryLivePollingThreadIsStored ==
    \A t \in 1..Len(threads) :
        live(t) => /\ threads[t].handle \in DOMAIN mThreadMap
                   /\ mThreadMap[threads[t].handle] = t

\* C30: once endPollforDevice(handle) or endPoll has cleared the flag of a
\* polling thread, the thread leaves its loop, also while its device is not
\* ready or has no AIE device instance, so that the join returns; when the
\* call returns the handle is in neither mThreadCtrlMap nor mThreadMap, the
\* threads it joined have ended, and a thread that has ended adds no sample.
EndOfPollingJoinsAndErases ==
    /\ \A h \in Handles :
           (caller.pc = "join" /\ caller.handle = h)
               ~> (caller.pc = "idle" /\ h \notin DOMAIN mThreadCtrlMap /\ h \notin DOMAIN mThreadMap)
    /\ (caller.pc = "joinAll")
           ~> (caller.pc \in {"idle", "destroyed"} /\ mThreadCtrlMap = NoMap /\ mThreadMap = NoMap)
    /\ [][/\ (caller.pc \in {"join", "joinAll"} /\ caller'.pc \notin {"join", "joinAll"})
               => /\ \A h \in DOMAIN mThreadMap :
                         (caller.pc = "joinAll" \/ h = caller.handle)
                             => /\ mThreadMap[h] \in caller'.joined
                                /\ h \notin DOMAIN mThreadCtrlMap'
                                /\ h \notin DOMAIN mThreadMap'
                  /\ \A t \in caller'.joined : threads'[t].pc = "done"
           /\ \A t \in 1..Len(threads) :
                  threads[t].pc = "done"
                      => threads'[t].pc = "done" /\ threads'[t].samples = threads[t].samples]_vars

\* endPollforDevice has returned after the join of a thread that had
\* entered its loop and left it without a sample, the database never having
\* told it that its device is ready
JoinedThreadOfDeviceNotReady ==
    /\ caller.pc = "idle"
    /\ caller.op = "endPollforDevice"
    /\ \E t \in caller.joined :
           /\ threads[t].handle = caller.handle
           /\ threads[t].pc = "done"
           /\ threads[t].entered
           /\ threads[t].dev = "notReady"
           /\ threads[t].samples = 0
    /\ caller.handle \notin DOMAIN mThreadCtrlMap
    /\ caller.handle \notin DOMAIN mThreadMap

====
